---- MODULE Spec2Model ----
(***************************************************************************)
(* Model of the kraky connection-and-subscription engine:                  *)
(*   src/src/client.rs          KrakyClient, ConnectionManager             *)
(*   src/src/subscriptions.rs   SubscriptionSender, SubscriptionManager    *)
(*   src/src/models/orderbook.rs Orderbook                                 *)
(*   src/src/messages.rs        KrakyMessage, SubscribeRequest             *)
(* Prices and quantities are integers (ticks / lots); a quantity of 0 is   *)
(* the removal command.  Option<u32> values use NoValue for None.          *)
(***************************************************************************)
EXTENDS Integers, Sequences, FiniteSets, TLC

\* ------------------------------------------------------------------------
\* Bounds of the model (not program constants)
\* ------------------------------------------------------------------------
MaxCalls == 2          \* consumer calls and heartbeat pings that enqueue or register
MaxFrames == 2         \* inbound frames (text and ping) over all connections
MaxFaults == 1         \* times the read half ends a session
MaxWriteErrors == 1    \* failed socket writes
MaxEventSinks == 2     \* subscribe_events calls
MaxSends == 5          \* direct sends to a subscription queue
MaxCapacity == 3       \* largest buffer size of a subscription queue built on its own
MaxEventRecvs == 2     \* events taken from the event sink
MaxTicks == 2          \* ticks of the heartbeat interval

\* ------------------------------------------------------------------------
\* Program constants
\* ------------------------------------------------------------------------
DEFAULT_BUFFER_SIZE == 1000
EVENT_BUFFER_SIZE == 100
IDLE_SLEEP_MS == 100
CHECKSUM_DEPTH == 10
DEFAULT_INITIAL_DELAY_MS == 500
DEFAULT_MAX_DELAY_MS == 30000
DEFAULT_BACKOFF_MULTIPLIER == 2

NoValue == -1

Symbols == {"BTC/USD", "ETH/USD"}
Depths == {10, 25}
Intervals == {1, 5}

\* ------------------------------------------------------------------------
\* Generic helpers
\* ------------------------------------------------------------------------
Min(a, b) == IF a <= b THEN a ELSE b

RECURSIVE Pow(_, _)
Pow(b, e) == IF e = 0 THEN 1 ELSE b * Pow(b, e - 1)

Last(s) == s[Len(s)]

IsSuffix(s, t) ==
    /\ Len(s) <= Len(t)
    /\ \A i \in 1..Len(s) : s[i] = t[Len(t) - Len(s) + i]

SetMax(S) == CHOOSE x \in S : \A y \in S : y <= x
SetMin(S) == CHOOSE x \in S : \A y \in S : x <= y

\* the elements of a finite set of integers in ascending order
RECURSIVE Ascending(_)
Ascending(S) ==
    IF S = {} THEN << >>
    ELSE LET m == SetMin(S) IN << m >> \o Ascending(S \ {m})

\* the elements of a finite set of integers in descending order
RECURSIVE Descending(_)
Descending(S) ==
    IF S = {} THEN << >>
    ELSE LET m == SetMax(S) IN << m >> \o Descending(S \ {m})

Take(s, n) == SubSeq(s, 1, Min(n, Len(s)))

\* ------------------------------------------------------------------------
\* CRC-32 (IEEE, reflected, polynomial 0xEDB88320) as crc32fast::hash.
\* A u32 is the pair << high 16 bits, low 16 bits >>.
\* ------------------------------------------------------------------------
RECURSIVE Xor(_, _)
Xor(a, b) ==
    IF a = 0 THEN b
    ELSE IF b = 0 THEN a
    ELSE (((a % 2) + (b % 2)) % 2) + 2 * Xor(a \div 2, b \div 2)

U32(hi, lo) == << hi, lo >>
U32_ZERO == U32(0, 0)
U32_ONES == U32(65535, 65535)
CRC_POLY == U32(60856, 33568)

Xor32(x, y) == U32(Xor(x[1], y[1]), Xor(x[2], y[2]))
Shr1(x) == U32(x[1] \div 2, (x[2] \div 2) + (x[1] % 2) * 32768)
Shr8(x) == U32(x[1] \div 256, (x[2] \div 256) + (x[1] % 256) * 256)

RECURSIVE CrcShift(_, _)
CrcShift(c, k) ==
    IF k = 0 THEN c
    ELSE CrcShift(IF c[2] % 2 = 1 THEN Xor32(Shr1(c), CRC_POLY) ELSE Shr1(c), k - 1)

CrcTable == [i \in 0..255 |-> CrcShift(U32(0, i), 8)]

RECURSIVE CrcBytes(_, _)
CrcBytes(crc, bytes) ==
    IF bytes = << >> THEN crc
    ELSE CrcBytes(Xor32(CrcTable[Xor(crc[2] % 256, Head(bytes))], Shr8(crc)),
                  Tail(bytes))

crc32(bytes) == Xor32(CrcBytes(U32_ONES, bytes), U32_ONES)

\* ------------------------------------------------------------------------
\* Orderbook (src/src/models/orderbook.rs)
\* A side is a function from the prices present to their quantity.
\* ------------------------------------------------------------------------
EmptySide == [p \in {} |-> 0]

Orderbook_new(symbol) ==
    [symbol |-> symbol, bids |-> EmptySide, asks |-> EmptySide,
     timestamp |-> "", sequence |-> 0, last_checksum |-> U32_ZERO,
     checksum_valid |-> TRUE,
     applied |-> 0,    \* history: number of the last inbound frame applied to this replica
     reset_at |-> 0]   \* history: inbound frames received when this replica was created

\* remove from a map whose keys are totally ordered (HashMap, BTreeMap)
MapRemove(m, p) == [q \in (DOMAIN m) \ {p} |-> m[q]]

\* insert or replace in a map whose keys are totally ordered
MapInsert(m, p, q) == [x \in (DOMAIN m) \cup {p} |-> IF x = p THEN q ELSE m[x]]

\* f64::NAN as a price: deserialize_number parses the string "NaN" into it
NaN == -2

\* impl Ord for OrderedFloat: partial_cmp(..).unwrap_or(Equal)
OrderedFloat_cmp(a, b) ==
    IF a = NaN \/ b = NaN THEN "Equal"
    ELSE IF a < b THEN "Less"
    ELSE IF a > b THEN "Greater"
    ELSE "Equal"

\* the search of a BTreeMap<OrderedFloat, f64> node for a key: the keys are
\* compared in stored order and the search stops at the first key that is not
\* Less than the one looked for; the result is the set of keys found (0 or 1)
BTreeMap_search(m, p) ==
    LET notLess == { k \in DOMAIN m : OrderedFloat_cmp(p, k) # "Greater" }
    IN IF notLess = {} THEN {}
       ELSE LET first == IF NaN \in notLess THEN NaN ELSE SetMin(notLess)
            IN IF OrderedFloat_cmp(p, first) = "Equal" THEN {first} ELSE {}

\* BTreeMap::remove on a side
BTreeMap_remove(m, p) == [q \in (DOMAIN m) \ BTreeMap_search(m, p) |-> m[q]]

\* BTreeMap::insert on a side: an occupied entry keeps its key and takes the value
BTreeMap_insert(m, p, q) ==
    LET found == BTreeMap_search(m, p)
    IN IF found = {} THEN MapInsert(m, p, q)
       ELSE [x \in DOMAIN m |-> IF x \in found THEN q ELSE m[x]]

\* the per-level loop of apply_update over one side
RECURSIVE ApplyLevels(_, _)
ApplyLevels(side, levels) ==
    IF levels = << >> THEN side
    ELSE LET level == Head(levels)
         IN ApplyLevels(IF level.qty = 0
                           THEN BTreeMap_remove(side, level.price)
                           ELSE BTreeMap_insert(side, level.price, level.qty),
                        Tail(levels))

\* decimal digits of a natural number as ASCII bytes ("0" is 48)
RECURSIVE Digits(_)
Digits(n) == IF n < 10 THEN << 48 + n >> ELSE Digits(n \div 10) \o << 48 + (n % 10) >>

RECURSIVE TrimTrailingZeros(_)
TrimTrailingZeros(s) ==
    IF s # << >> /\ Last(s) = 48 THEN TrimTrailingZeros(SubSeq(s, 1, Len(s) - 1)) ELSE s

RECURSIVE TrimLeadingZeros(_)
TrimLeadingZeros(s) ==
    IF s # << >> /\ Head(s) = 48 THEN TrimLeadingZeros(Tail(s)) ELSE s

\* format!("{:.10}") of an integral value, decimal point removed:
\* the digits of the value followed by ten zeros
\* (NaN is written "NaN", which has no decimal point)
FormatFixed10(value) ==
    IF value = NaN THEN << 78, 97, 78 >> ELSE Digits(value) \o [i \in 1..10 |-> 48]

format_for_checksum(value) ==
    LET without_decimal == FormatFixed10(value)
        trimmed == TrimLeadingZeros(without_decimal)
    IN IF trimmed = << >> THEN << 48 >> ELSE TrimTrailingZeros(trimmed)

RECURSIVE ChecksumString(_, _)
ChecksumString(side, prices) ==
    IF prices = << >> THEN << >>
    ELSE format_for_checksum(Head(prices)) \o format_for_checksum(side[Head(prices)])
         \o ChecksumString(side, Tail(prices))

calculate_checksum(ob) ==
    crc32(ChecksumString(ob.asks, Take(Ascending(DOMAIN ob.asks), CHECKSUM_DEPTH))
          \o ChecksumString(ob.bids, Take(Descending(DOMAIN ob.bids), CHECKSUM_DEPTH)))

validate_checksum(ob, expected) == calculate_checksum(ob) = expected

\* apply_update validating the checksum before the levels are applied
apply_update_validate_first(ob, data) ==
    LET applied == [ob EXCEPT !.timestamp = data.timestamp,
                              !.sequence = ob.sequence + 1,
                              !.bids = ApplyLevels(ob.bids, data.bids),
                              !.asks = ApplyLevels(ob.asks, data.asks)]
    IN IF data.checksum # U32_ZERO
          THEN [applied EXCEPT !.last_checksum = data.checksum,
                               !.checksum_valid = validate_checksum(ob, data.checksum)]
          ELSE applied

\* apply_update taking a zero checksum as "nothing to compare": valid again
apply_update_zero_clears(ob, data) ==
    LET applied == [ob EXCEPT !.timestamp = data.timestamp,
                              !.sequence = ob.sequence + 1,
                              !.bids = ApplyLevels(ob.bids, data.bids),
                              !.asks = ApplyLevels(ob.asks, data.asks)]
    IN IF data.checksum # U32_ZERO
          THEN [applied EXCEPT !.last_checksum = data.checksum,
                               !.checksum_valid = validate_checksum(applied, data.checksum)]
          ELSE [applied EXCEPT !.checksum_valid = TRUE]

apply_update(ob, data) ==
    LET applied == [ob EXCEPT !.timestamp = data.timestamp,
                              !.sequence = ob.sequence + 1,
                              !.bids = ApplyLevels(ob.bids, data.bids),
                              !.asks = ApplyLevels(ob.asks, data.asks)]
    IN IF data.checksum # U32_ZERO
          THEN [applied EXCEPT !.last_checksum = data.checksum,
                               !.checksum_valid = validate_checksum(applied, data.checksum)]
          ELSE applied

best_bid(ob) == IF DOMAIN ob.bids = {} THEN NoValue ELSE SetMax(DOMAIN ob.bids)
best_ask(ob) == IF DOMAIN ob.asks = {} THEN NoValue ELSE SetMin(DOMAIN ob.asks)

\* ------------------------------------------------------------------------
\* Outbound requests (src/src/messages.rs)
\* ------------------------------------------------------------------------
SubscribeRequest_orderbook(symbols, depth) ==
    [method |-> "subscribe", channel |-> "book", symbol |-> symbols,
     depth |-> depth, snapshot |-> TRUE, interval |-> NoValue]

SubscribeRequest_trades(symbols) ==
    [method |-> "subscribe", channel |-> "trade", symbol |-> symbols,
     depth |-> NoValue, snapshot |-> TRUE, interval |-> NoValue]

SubscribeRequest_ticker(symbols) ==
    [method |-> "subscribe", channel |-> "ticker", symbol |-> symbols,
     depth |-> NoValue, snapshot |-> TRUE, interval |-> NoValue]

SubscribeRequest_ohlc(symbols, interval) ==
    [method |-> "subscribe", channel |-> "ohlc", symbol |-> symbols,
     depth |-> NoValue, snapshot |-> TRUE, interval |-> interval]

PingRequest_default ==
    [method |-> "ping", channel |-> "", symbol |-> << >>,
     depth |-> NoValue, snapshot |-> FALSE, interval |-> NoValue]

\* the payload of a trading command (add_order, cancel_order, ...)
RawRequest ==
    [method |-> "add_order", channel |-> "", symbol |-> << >>,
     depth |-> NoValue, snapshot |-> FALSE, interval |-> NoValue]

\* the payload echoed in reply to a server ping
PongPayload ==
    [method |-> "pong-frame", channel |-> "", symbol |-> << >>,
     depth |-> NoValue, snapshot |-> FALSE, interval |-> NoValue]

\* enum Command
Command_Subscribe(request) == [type |-> "Subscribe", request |-> request]
Command_Ping == [type |-> "Ping", request |-> PingRequest_default]
Command_Shutdown == [type |-> "Shutdown", request |-> PingRequest_default]
Command_Reconnect == [type |-> "Reconnect", request |-> PingRequest_default]
Command_RawMessage(json) == [type |-> "RawMessage", request |-> json]

\* enum StoredSubscription
Stored_Orderbook(pair, depth) ==
    [kind |-> "Orderbook", pair |-> pair, depth |-> depth, interval |-> NoValue]
Stored_Trades(pair) ==
    [kind |-> "Trades", pair |-> pair, depth |-> NoValue, interval |-> NoValue]
Stored_Ticker(pair) ==
    [kind |-> "Ticker", pair |-> pair, depth |-> NoValue, interval |-> NoValue]
Stored_OHLC(pair, interval) ==
    [kind |-> "OHLC", pair |-> pair, depth |-> NoValue, interval |-> interval]

\* ------------------------------------------------------------------------
\* Inbound text frames and KrakyMessage::parse (src/src/messages.rs)
\* A frame is described by what the parser looks at: whether the text is
\* JSON at all, its "method" and "channel" members, whether the body
\* deserializes into the channel's typed update, and that body.
\* ------------------------------------------------------------------------
Level(price, qty) == [price |-> price, qty |-> qty]

BookData(symbol, bids, asks, checksum, timestamp) ==
    [symbol |-> symbol, bids |-> bids, asks |-> asks,
     checksum |-> checksum, timestamp |-> timestamp]

Frame(valid_json, method, channel, well_formed, type, data) ==
    [valid_json |-> valid_json, method |-> method, channel |-> channel,
     well_formed |-> well_formed, type |-> type, data |-> data]

ParseErr == [tag |-> "Err", update_type |-> "", data |-> << >>]

\* parse accepting a data-channel frame whatever its body
KrakyMessage_parse_lenient(text) ==
    IF ~text.valid_json THEN ParseErr
    ELSE IF text.channel \in {"book", "trade", "ticker", "ohlc"}
        THEN [tag |-> CASE text.channel = "book" -> "Orderbook"
                        [] text.channel = "trade" -> "Trade"
                        [] text.channel = "ticker" -> "Ticker"
                        [] text.channel = "ohlc" -> "OHLC",
              update_type |-> text.type, data |-> text.data]
    ELSE [tag |-> "Unknown", update_type |-> "", data |-> << >>]

KrakyMessage_parse(text) ==
    IF ~text.valid_json THEN ParseErr
    ELSE IF text.method = "pong"
        THEN [tag |-> "Pong", update_type |-> "", data |-> << >>]
    ELSE IF text.method \in {"subscribe", "unsubscribe"}
        THEN [tag |-> "SubscriptionStatus", update_type |-> "", data |-> << >>]
    ELSE IF text.channel = "status"
        THEN IF text.well_formed
                THEN [tag |-> "SystemStatus", update_type |-> "", data |-> << >>]
                ELSE ParseErr
    ELSE IF text.channel = "heartbeat"
        THEN [tag |-> "Heartbeat", update_type |-> "", data |-> << >>]
    ELSE IF text.channel \in {"book", "trade", "ticker", "ohlc"}
        THEN IF text.well_formed
                THEN [tag |-> CASE text.channel = "book" -> "Orderbook"
                                [] text.channel = "trade" -> "Trade"
                                [] text.channel = "ticker" -> "Ticker"
                                [] text.channel = "ohlc" -> "OHLC",
                      update_type |-> text.type, data |-> text.data]
                ELSE ParseErr
    ELSE [tag |-> "Unknown", update_type |-> "", data |-> << >>]

\* ------------------------------------------------------------------------
\* Subscriptions (src/src/subscriptions.rs)
\* A SubscriptionSender together with the receiving half of its channel:
\* queue holds the items sent and not yet taken by the consumer.
\* ------------------------------------------------------------------------
SubscriptionSender_with_config(channel, symbol, buffer_size) ==
    [channel |-> channel, symbol |-> symbol, queue |-> << >>,
     delivered |-> 0, dropped |-> 0, closed |-> FALSE, capacity |-> buffer_size]

SubscriptionSender_new(channel, symbol) ==
    SubscriptionSender_with_config(channel, symbol, DEFAULT_BUFFER_SIZE)

\* send placing the item ahead of the queued ones
SubscriptionSender_send_front(sub, item) ==
    IF sub.closed THEN sub
    ELSE IF Len(sub.queue) < sub.capacity
        THEN [sub EXCEPT !.queue = << item >> \o @, !.delivered = @ + 1]
    ELSE [sub EXCEPT !.dropped = @ + 1]

\* send dropping on a full queue without counting the drop
SubscriptionSender_send_uncounted(sub, item) ==
    IF sub.closed THEN sub
    ELSE IF Len(sub.queue) < sub.capacity
        THEN [sub EXCEPT !.queue = Append(@, item), !.delivered = @ + 1]
    ELSE sub

\* send keeping the newest items: on a full queue the oldest item makes room
SubscriptionSender_send_evict_oldest(sub, item) ==
    IF sub.closed THEN sub
    ELSE IF Len(sub.queue) < sub.capacity
        THEN [sub EXCEPT !.queue = Append(@, item), !.delivered = @ + 1]
    ELSE [sub EXCEPT !.queue = Append(Tail(@), item), !.dropped = @ + 1]

SubscriptionSender_send(sub, item) ==
    IF sub.closed THEN sub
    ELSE IF Len(sub.queue) < sub.capacity
        THEN [sub EXCEPT !.queue = Append(@, item), !.delivered = @ + 1]
    ELSE [sub EXCEPT !.dropped = @ + 1]

\* the Result of send: Err only when the receiver is gone
SubscriptionSender_send_ok(sub) == ~sub.closed

SubscriptionManager_new ==
    [orderbook |-> << >>, trades |-> << >>, ticker |-> << >>, ohlc |-> << >>]

\* the inner loop without the wildcard: only the senders of the very symbol
DispatchTo_exact(senders, symbol, item) ==
    [i \in 1..Len(senders) |->
        IF senders[i].symbol = symbol
           THEN SubscriptionSender_send(senders[i], item)
           ELSE senders[i]]

\* the inner loop of dispatch_*: offer item to every sender matching symbol
DispatchTo(senders, symbol, item) ==
    [i \in 1..Len(senders) |->
        IF senders[i].symbol = symbol \/ senders[i].symbol = "*"
           THEN SubscriptionSender_send(senders[i], item)
           ELSE senders[i]]

\* dispatch_orderbook: one clone of the whole update per data entry
RECURSIVE dispatch_orderbook(_, _, _)
dispatch_orderbook(senders, item, data) ==
    IF data = << >> THEN senders
    ELSE dispatch_orderbook(DispatchTo(senders, Head(data).symbol, item), item, Tail(data))

\* TradeDataRaw::to_trade, TickerData::to_ticker, OHLCData::to_ohlc
ToTyped(kind, d, c) == [kind |-> kind, symbol |-> d.symbol, body |-> d, conn |-> c]

\* dispatch_trade / dispatch_ticker / dispatch_ohlc: one typed item per entry
RECURSIVE dispatch_typed(_, _, _, _)
dispatch_typed(senders, kind, data, c) ==
    IF data = << >> THEN senders
    ELSE dispatch_typed(DispatchTo(senders, Head(data).symbol, ToTyped(kind, Head(data), c)),
                        kind, Tail(data), c)

\* ------------------------------------------------------------------------
\* Reconnect policy (src/src/client.rs)
\* ------------------------------------------------------------------------
ReconnectConfig_default ==
    [enabled |-> TRUE, initial_delay |-> DEFAULT_INITIAL_DELAY_MS,
     max_delay |-> DEFAULT_MAX_DELAY_MS,
     backoff_multiplier |-> << DEFAULT_BACKOFF_MULTIPLIER, 1 >>, max_attempts |-> NoValue]

\* A multiplier (f64) is a ratio << numerator, denominator >> and an attempt
\* number (u32) a pair << high half, low half >>.  The multipliers used are
\* ratios of small powers of two and three and the delays stay below 2^31, so
\* that every product below is exact in f64 as well.

\* "attempt as i32": the 32 bits read as a two's complement number
as_i32(attempt) ==
    IF attempt[1] < 32768 THEN attempt[1] * 65536 + attempt[2]
                          ELSE (attempt[1] - 65536) * 65536 + attempt[2]

\* f64::powi: a negative exponent gives the power of the reciprocal
powi(x, n) ==
    IF n >= 0 THEN << Pow(x[1], n), Pow(x[2], n) >>
              ELSE << Pow(x[2], -n), Pow(x[1], -n) >>

\* the attempt counter of the manager as the u32 it is
AttemptNumber(n) == U32(n \div 65536, n % 65536)

\* ReconnectConfig::delay_for_attempt; "as u64" truncates the product
delay_for_attempt(config, attempt) ==
    LET p == powi(config.backoff_multiplier, as_i32(attempt))
        delay_ms == (config.initial_delay * p[1]) \div p[2]
    IN Min(delay_ms, config.max_delay)

\* a call result: Ok(value) or Err (value NoValue); at numbers the call
Result(op, ok, value, at) == [op |-> op, ok |-> ok, value |-> value, at |-> at]
NoResult == Result("", TRUE, 0, 0)

\* ------------------------------------------------------------------------
\* Provider errors (src/src/error.rs)
\* ------------------------------------------------------------------------
\* A string is the sequence of its characters; "U+00E9" stands for the characters
\* that take more than one byte in UTF-8.
Utf8Len(c) == IF c = "U+00E9" THEN 2 ELSE 1

RECURSIVE str_len(_)
str_len(s) == IF s = << >> THEN 0 ELSE Utf8Len(Head(s)) + str_len(Tail(s))

\* str::find(':') as the position of the character, 0 for None
RECURSIVE FindFrom(_, _, _)
FindFrom(s, c, i) ==
    IF i > Len(s) THEN 0 ELSE IF s[i] = c THEN i ELSE FindFrom(s, c, i + 1)

str_find(s, c) == FindFrom(s, c, 1)

RECURSIVE trim_start(_)
trim_start(s) == IF s # << >> /\ Head(s) = " " THEN trim_start(Tail(s)) ELSE s

RECURSIVE trim_end(_)
trim_end(s) ==
    IF s # << >> /\ s[Len(s)] = " " THEN trim_end(SubSeq(s, 1, Len(s) - 1)) ELSE s

str_trim(s) == trim_end(trim_start(s))

CategoryNames ==
    [Query |-> << "Q", "u", "e", "r", "y" >>,
     Service |-> << "S", "e", "r", "v", "i", "c", "e" >>,
     Api |-> << "A", "P", "I" >>,
     Order |-> << "O", "r", "d", "e", "r" >>,
     Trade |-> << "T", "r", "a", "d", "e" >>,
     Funding |-> << "F", "u", "n", "d", "i", "n", "g" >>,
     Auth |-> << "A", "u", "t", "h" >>,
     General |-> << "G", "e", "n", "e", "r", "a", "l" >>]

\* KrakenCategory: a named variant, or Unknown carrying the string
KrakenCategory(tag) == [tag |-> tag, name |-> << >>]
KrakenCategory_Unknown(name) == [tag |-> "Unknown", name |-> name]

\* the match on category_str, lines 116-126
KrakenCategory_of(category_str) ==
    IF \E tag \in DOMAIN CategoryNames : CategoryNames[tag] = category_str
       THEN KrakenCategory(CHOOSE tag \in DOMAIN CategoryNames :
                               CategoryNames[tag] = category_str)
       ELSE KrakenCategory_Unknown(category_str)

KrakenApiError(severity, category, message, raw) ==
    [severity |-> severity, category |-> category, message |-> message, raw |-> raw]

\* the slice &error[1..colon_pos] panics when byte 1 is inside the first
\* character or when the colon is the first character (range 1..0)
SlicePanics(error, colon) == colon = 1 \/ Utf8Len(error[1]) > 1

\* KrakenApiError::parse keeping the message as it stands after the colon
KrakenApiError_parse_untrimmed(error) ==
    LET colon == str_find(error, ":")
    IN IF str_len(error) >= 2 /\ colon # 0
          THEN IF SlicePanics(error, colon)
                  THEN Result("parse", FALSE, NoValue, error)
                  ELSE Result("parse", TRUE,
                              KrakenApiError(
                                  CASE error[1] = "E" -> "Error"
                                    [] error[1] = "W" -> "Warning"
                                    [] OTHER -> "Unknown",
                                  KrakenCategory_of(SubSeq(error, 2, colon - 1)),
                                  SubSeq(error, colon + 1, Len(error)),
                                  error),
                              error)
          ELSE Result("parse", TRUE,
                      KrakenApiError("Error", KrakenCategory("General"), error, error),
                      error)

\* KrakenApiError::parse: the value returned, or the panic of the slice
KrakenApiError_parse(error) ==
    LET colon == str_find(error, ":")
    IN IF str_len(error) >= 2 /\ colon # 0
          THEN IF SlicePanics(error, colon)
                  THEN Result("parse", FALSE, NoValue, error)
                  ELSE Result("parse", TRUE,
                              KrakenApiError(
                                  CASE error[1] = "E" -> "Error"
                                    [] error[1] = "W" -> "Warning"
                                    [] OTHER -> "Unknown",
                                  KrakenCategory_of(SubSeq(error, 2, colon - 1)),
                                  str_trim(SubSeq(error, colon + 1, Len(error))),
                                  error),
                              error)
          ELSE Result("parse", TRUE,
                      KrakenApiError("Error", KrakenCategory("General"), error, error),
                      error)

\* ------------------------------------------------------------------------
\* Authentication (src/src/auth.rs): HMAC-SHA256 as the crates hmac and sha2
\* compute it, and the standard base64 alphabet with padding.
\* Bytes are numbers 0..255, a 32-bit word is a pair as above.
\* ------------------------------------------------------------------------
RECURSIVE And(_, _)
And(a, b) ==
    IF a = 0 \/ b = 0 THEN 0
    ELSE ((a % 2) * (b % 2)) + 2 * And(a \div 2, b \div 2)

And32(x, y) == U32(And(x[1], y[1]), And(x[2], y[2]))
Not32(x) == U32(65535 - x[1], 65535 - x[2])

\* wrapping_add
Add32(x, y) ==
    U32((x[1] + y[1] + ((x[2] + y[2]) \div 65536)) % 65536, (x[2] + y[2]) % 65536)

\* rotate_right and >> on a 32-bit word, 0 < n < 32
Rotr(x, n) ==
    LET y == IF n >= 16 THEN U32(x[2], x[1]) ELSE x
        k == n % 16
    IN IF k = 0 THEN y
       ELSE U32((y[1] \div 2^k) + (y[2] % 2^k) * 2^(16 - k),
                (y[2] \div 2^k) + (y[1] % 2^k) * 2^(16 - k))

Shr(x, n) ==
    IF n >= 16 THEN U32(0, x[1] \div 2^(n - 16))
    ELSE U32(x[1] \div 2^n, (x[2] \div 2^n) + (x[1] % 2^n) * 2^(16 - n))

SHA256_K ==
    << U32(17034, 12184), U32(28983, 17553), U32(46528, 64463), U32(59829, 56229),
       U32(14678, 49755), U32(23025, 4593), U32(37439, 33444), U32(43804, 24277),
       U32(55303, 43672), U32(4739, 23297), U32(9265, 34238), U32(21772, 32195),
       U32(29374, 23924), U32(32990, 45566), U32(39900, 1703), U32(49563, 61812),
       U32(58523, 27073), U32(61374, 18310), U32(4033, 40390), U32(9228, 41420),
       U32(11753, 11375), U32(19060, 33962), U32(23728, 43484), U32(30457, 35034),
       U32(38974, 20818), U32(43057, 50797), U32(45059, 10184), U32(48985, 32711),
       U32(50912, 3059), U32(54695, 37191), U32(1738, 25425), U32(5161, 10599),
       U32(10167, 2693), U32(11803, 8504), U32(19756, 28156), U32(21304, 3347),
       U32(25866, 29524), U32(30314, 2747), U32(33218, 51502), U32(37490, 11397),
       U32(41663, 59553), U32(43034, 26187), U32(49739, 35696), U32(51052, 20899),
       U32(53650, 59417), U32(54937, 1572), U32(62478, 13701), U32(4202, 41072),
       U32(6564, 49430), U32(7735, 27656), U32(10056, 30540), U32(13488, 48309),
       U32(14620, 3251), U32(20184, 43594), U32(23452, 51791), U32(26670, 28659),
       U32(29839, 33518), U32(30885, 25455), U32(33992, 30740), U32(36039, 520),
       U32(37054, 65530), U32(42064, 27883), U32(48889, 41975), U32(50801, 30962) >>

SHA256_H0 ==
    << U32(27145, 58983), U32(47975, 44677), U32(15470, 62322), U32(42319, 62778),
       U32(20750, 21119), U32(39685, 26764), U32(8067, 55723), U32(23520, 52505) >>

BigSigma0(x) == Xor32(Xor32(Rotr(x, 2), Rotr(x, 13)), Rotr(x, 22))
BigSigma1(x) == Xor32(Xor32(Rotr(x, 6), Rotr(x, 11)), Rotr(x, 25))
SmallSigma0(x) == Xor32(Xor32(Rotr(x, 7), Rotr(x, 18)), Shr(x, 3))
SmallSigma1(x) == Xor32(Xor32(Rotr(x, 17), Rotr(x, 19)), Shr(x, 10))
Ch(x, y, z) == Xor32(And32(x, y), And32(Not32(x), z))
Maj(x, y, z) == Xor32(Xor32(And32(x, y), And32(x, z)), And32(y, z))

\* the message schedule: the 16 words of the block extended to 64
RECURSIVE Schedule(_)
Schedule(w) ==
    IF Len(w) = 64 THEN w
    ELSE LET t == Len(w) + 1
         IN Schedule(Append(w, Add32(Add32(SmallSigma1(w[t - 2]), w[t - 7]),
                                     Add32(SmallSigma0(w[t - 15]), w[t - 16]))))

\* one round on the working variables s = << a, b, c, d, e, f, g, h >>
Round(s, w, t) ==
    LET t1 == Add32(Add32(Add32(s[8], BigSigma1(s[5])), Ch(s[5], s[6], s[7])),
                    Add32(SHA256_K[t], w[t]))
        t2 == Add32(BigSigma0(s[1]), Maj(s[1], s[2], s[3]))
    IN << Add32(t1, t2), s[1], s[2], s[3], Add32(s[4], t1), s[5], s[6], s[7] >>

\* the 64 rounds, as the sequence of the working variables after each
RECURSIVE RoundsFrom(_, _)
RoundsFrom(done, w) ==
    IF Len(done) = 65 THEN done[65]
    ELSE RoundsFrom(Append(done, Round(done[Len(done)], w, Len(done))), w)

Rounds(h, w) == RoundsFrom(<< h >>, w)

compress(h, block) ==
    LET s == Rounds(h, Schedule(block))
    IN [i \in 1..8 |-> Add32(h[i], s[i])]

\* big-endian bytes <-> words
WordOf(b, i) == U32(b[i] * 256 + b[i + 1], b[i + 2] * 256 + b[i + 3])
WordsOf(b) == [i \in 1..(Len(b) \div 4) |-> WordOf(b, 4 * i - 3)]
BytesOfWord(x) == << x[1] \div 256, x[1] % 256, x[2] \div 256, x[2] % 256 >>

RECURSIVE BytesOfWords(_)
BytesOfWords(ws) ==
    IF ws = << >> THEN << >> ELSE BytesOfWord(Head(ws)) \o BytesOfWords(Tail(ws))

\* the padding: 0x80, zeros, and the length in bits as 64 bits
Zeros(n) == [i \in 1..n |-> 0]
Sha256Pad(msg) ==
    LET n == Len(msg)
        z == (119 - (n % 64)) % 64
    IN msg \o << 128 >> \o Zeros(z) \o Zeros(4) \o BytesOfWord(U32((n * 8) \div 65536, (n * 8) % 65536))

RECURSIVE Sha256Blocks(_, _)
Sha256Blocks(h, ws) ==
    IF ws = << >> THEN h
    ELSE Sha256Blocks(compress(h, SubSeq(ws, 1, 16)), SubSeq(ws, 17, Len(ws)))

sha256(msg) == BytesOfWords(Sha256Blocks(SHA256_H0, WordsOf(Sha256Pad(msg))))

\* Hmac::new_from_slice and finalize: a key longer than a block is hashed,
\* then padded with zeros to 64 bytes
HmacSha256(key, msg) ==
    LET k0 == IF Len(key) > 64 THEN sha256(key) ELSE key
        k == k0 \o Zeros(64 - Len(k0))
        ipad == [i \in 1..64 |-> Xor(k[i], 54)]
        opad == [i \in 1..64 |-> Xor(k[i], 92)]
    IN sha256(opad \o sha256(ipad \o msg))

\* base64, the STANDARD engine
BASE64_ALPHABET ==
    << "A", "B", "C", "D", "E", "F", "G", "H", "I", "J", "K", "L", "M", "N", "O", "P",
       "Q", "R", "S", "T", "U", "V", "W", "X", "Y", "Z", "a", "b", "c", "d", "e", "f",
       "g", "h", "i", "j", "k", "l", "m", "n", "o", "p", "q", "r", "s", "t", "u", "v",
       "w", "x", "y", "z", "0", "1", "2", "3", "4", "5", "6", "7", "8", "9", "+", "/" >>

Base64Value(c) == (CHOOSE i \in 1..64 : BASE64_ALPHABET[i] = c) - 1
IsBase64Char(c) == \E i \in 1..64 : BASE64_ALPHABET[i] = c

RECURSIVE Base64Encode(_)
Base64Encode(b) ==
    IF b = << >> THEN << >>
    ELSE IF Len(b) = 1
        THEN << BASE64_ALPHABET[(b[1] \div 4) + 1], BASE64_ALPHABET[(b[1] % 4) * 16 + 1],
                "=", "=" >>
    ELSE IF Len(b) = 2
        THEN << BASE64_ALPHABET[(b[1] \div 4) + 1],
                BASE64_ALPHABET[(b[1] % 4) * 16 + (b[2] \div 16) + 1],
                BASE64_ALPHABET[(b[2] % 16) * 4 + 1], "=" >>
    ELSE << BASE64_ALPHABET[(b[1] \div 4) + 1],
            BASE64_ALPHABET[(b[1] % 4) * 16 + (b[2] \div 16) + 1],
            BASE64_ALPHABET[(b[2] % 16) * 4 + (b[3] \div 64) + 1],
            BASE64_ALPHABET[(b[3] % 64) + 1] >> \o Base64Encode(SubSeq(b, 4, Len(b)))

\* decode accepts whole groups of four characters, padded only at the end and
\* with no bits set beyond the last byte
Base64Valid(s) ==
    /\ Len(s) % 4 = 0
    /\ LET pad == IF s = << >> THEN 0
                  ELSE IF s[Len(s)] # "=" THEN 0
                  ELSE IF s[Len(s) - 1] # "=" THEN 1 ELSE 2
           n == Len(s) - pad
       IN /\ \A i \in 1..n : IsBase64Char(s[i])
          /\ pad = 1 => Base64Value(s[n]) % 4 = 0
          /\ pad = 2 => Base64Value(s[n]) % 16 = 0

RECURSIVE Base64Decode(_)
Base64Decode(s) ==
    IF s = << >> THEN << >>
    ELSE LET v1 == Base64Value(s[1])
             v2 == Base64Value(s[2])
         IN IF s[3] = "=" THEN << v1 * 4 + (v2 \div 16) >>
            ELSE LET v3 == Base64Value(s[3])
                 IN IF s[4] = "="
                       THEN << v1 * 4 + (v2 \div 16), (v2 % 16) * 16 + (v3 \div 4) >>
                       ELSE << v1 * 4 + (v2 \div 16), (v2 % 16) * 16 + (v3 \div 4),
                               (v3 % 4) * 64 + Base64Value(s[4]) >>
                            \o Base64Decode(SubSeq(s, 5, Len(s)))

\* u64::to_string as ASCII bytes
RECURSIVE DecimalBytes(_)
DecimalBytes(n) ==
    IF n < 10 THEN << 48 + n >> ELSE DecimalBytes(n \div 10) \o << 48 + (n % 10) >>

\* a signature that leaves the nonce out of the message
generate_token_without_nonce(api_secret, nonce) ==
    IF ~Base64Valid(api_secret)
       THEN Result("generate_token", FALSE, "InvalidMessage", << api_secret, nonce >>)
       ELSE Result("generate_token", TRUE,
                   Base64Encode(HmacSha256(Base64Decode(api_secret), << >>)),
                   << api_secret, nonce >>)

\* Credentials::generate_token: the secret is decoded, the decimal text of
\* the nonce is signed with it and the signature is encoded; a secret that
\* does not decode gives KrakyError::InvalidMessage
generate_token(api_secret, nonce) ==
    IF ~Base64Valid(api_secret)
       THEN Result("generate_token", FALSE, "InvalidMessage", << api_secret, nonce >>)
       ELSE Result("generate_token", TRUE,
                   Base64Encode(HmacSha256(Base64Decode(api_secret), DecimalBytes(nonce))),
                   << api_secret, nonce >>)


\* ------------------------------------------------------------------------
\* State
\* ------------------------------------------------------------------------
VARIABLES
    reconnect_config,     \* KrakyClient.reconnect_config
    state,                \* AtomicU8 connection state
    shutdown,             \* AtomicBool shutdown flag
    command_queue,        \* the unbounded command channel (command_tx -> command_rx)
    subscriptions,        \* SubscriptionManager: the four sender registries
    orderbooks,           \* HashMap<String, Orderbook>
    stored_subscriptions, \* Vec<StoredSubscription>
    event_tx,             \* Option<Sender<ConnectionEvent>>: 0 is None, k the k-th sink
    event_chan,           \* events held by the channel of the current sink
    old_event_chan,       \* events still held by the channel of the sink replaced last
    pc,                   \* position of the manager task in ConnectionManager::run
    ws_stream,            \* run: ws_stream.is_some()
    reconnect_attempt,    \* run: reconnect_attempt
    pending_commands,     \* run: pending_commands
    disconnect_reason,    \* run: result of the last run_message_loop
    slept,                \* duration (ms) of the manager's last tokio::time::sleep
    heartbeat_running,    \* the heartbeat task has not left its loop
    conn,                 \* number of the current WebSocket connection (0 = initial)
    written,              \* frames handed to the socket writer on connection conn
    emitted,              \* history: every event passed to emit_event
    last_frame,           \* history: the last text frame given to handle_message
    resub_count,          \* history: Len(stored_subscriptions) at the last resubscribe_all
    shutdown_mark,        \* history: Len(emitted) when disconnect() was called on a running manager
    conn_frames,          \* history: text frames given to handle_message on connection conn
    returned,             \* history: what the consumer's last call with a result returned
    used                  \* how much of each bound of the model has been used

vars == << reconnect_config, state, shutdown, command_queue, subscriptions,
           orderbooks, stored_subscriptions, event_tx, event_chan, old_event_chan, pc, ws_stream,
           reconnect_attempt, pending_commands, disconnect_reason, slept,
           heartbeat_running, conn, written, emitted, last_frame, resub_count,
           shutdown_mark, conn_frames, returned, used >>

managerLocals == << ws_stream, reconnect_attempt, pending_commands, disconnect_reason, slept >>
histVars == << last_frame, resub_count, shutdown_mark, conn_frames, returned >>

\* ------------------------------------------------------------------------
\* Inbound frames offered by the server in this model
\* ------------------------------------------------------------------------
F_garbage == Frame(FALSE, "", "", FALSE, "", << >>)

\* a "book" frame whose body does not deserialize (e.g. no "type" member)
F_badbook ==
    Frame(TRUE, "", "book", FALSE, "",
          << BookData("BTC/USD", << Level(97, 5) >>, << Level(105, 5) >>, U32_ZERO, "t0") >>)

F_snapshotA ==
    Frame(TRUE, "", "book", TRUE, "snapshot",
          << BookData("BTC/USD", << Level(100, 1), Level(99, 2) >>,
                      << Level(101, 1) >>, U32_ZERO, "t1") >>)

F_update ==
    Frame(TRUE, "", "book", TRUE, "update",
          << BookData("BTC/USD", << Level(100, 0), Level(98, 3) >>, << >>, U32_ZERO, "t2") >>)

F_snapshotB ==
    Frame(TRUE, "", "book", TRUE, "snapshot",
          << BookData("BTC/USD", << Level(98, 1) >>, << Level(102, 4), Level(103, 0) >>,
                      U32_ZERO, "t3"),
             BookData("ETH/USD", << Level(10, 1) >>, << Level(11, 1) >>, U32_ZERO, "t3") >>)

\* a trade / ticker / ohlc data entry: only its symbol matters to the engine
TypedData(symbol, timestamp) == BookData(symbol, << >>, << >>, U32_ZERO, timestamp)

F_trade == Frame(TRUE, "", "trade", TRUE, "update", << TypedData("ETH/USD", "t4") >>)

F_none == Frame(FALSE, "none", "", FALSE, "", << >>)

\* the provider refusing a subscribe request: {"method":"subscribe","success":false,...}
F_rejected == Frame(TRUE, "subscribe", "", TRUE, "", << >>)

TextFrames == { F_garbage, F_badbook, F_snapshotA, F_update, F_snapshotB, F_trade }

\* the CRC-32 of "101211": asks 101 @ 2, bids 100 @ 1
SUM_101_2_100_1 == U32(10046, 25759)

\* an update whose checksum is that of the levels it carries
F_sumok ==
    Frame(TRUE, "", "book", TRUE, "update",
          << BookData("BTC/USD", << Level(100, 1) >>, << Level(101, 2) >>,
                      SUM_101_2_100_1, "t5") >>)

\* a snapshot whose checksum is not that of the levels it carries
F_sumbad ==
    Frame(TRUE, "", "book", TRUE, "snapshot",
          << BookData("BTC/USD", << Level(100, 1) >>, << Level(101, 2) >>,
                      U32(1, 1), "t6") >>)

\* an update that names a price twice and whose ask is below its bid
F_crossed ==
    Frame(TRUE, "", "book", TRUE, "update",
          << BookData("BTC/USD", << Level(100, 1), Level(100, 4) >>,
                      << Level(99, 1), Level(101, 0) >>, U32_ZERO, "t7") >>)

\* an update whose bid price was sent as the string "NaN"
F_nan ==
    Frame(TRUE, "", "book", TRUE, "update",
          << BookData("BTC/USD", << Level(NaN, 5) >>, << >>, U32_ZERO, "t8") >>)

BookFrames == { F_snapshotA, F_update, F_sumok, F_sumbad, F_crossed, F_nan }

\* ------------------------------------------------------------------------
\* Events
\* ------------------------------------------------------------------------
Event(type, n, reason) == [type |-> type, n |-> n, reason |-> reason]
Ev_Connected == Event("Connected", 0, "")
Ev_Disconnected(reason) == Event("Disconnected", 0, reason)
Ev_Reconnecting(n) == Event("Reconnecting", n, "")
Ev_Reconnected == Event("Reconnected", 0, "")
Ev_ReconnectFailed(n, err) == Event("ReconnectFailed", n, err)
Ev_ReconnectExhausted == Event("ReconnectExhausted", 0, "")

\* mpsc::Sender::try_send on the event channel, result ignored
EventTrySend(chan, event) ==
    IF Len(chan) < EVENT_BUFFER_SIZE THEN Append(chan, event) ELSE chan

\* emit_event waiting for room in a full event channel
emit_event_blocking(event) ==
    /\ event_tx = 0 \/ Len(event_chan) < EVENT_BUFFER_SIZE
    /\ event_chan' = IF event_tx # 0 THEN Append(event_chan, event) ELSE event_chan
    /\ UNCHANGED old_event_chan
    /\ emitted' = Append(emitted, event)

\* emit_event offering the event to the replaced sink as well
emit_event_broadcast(event) ==
    /\ event_chan' = IF event_tx # 0 THEN EventTrySend(event_chan, event) ELSE event_chan
    /\ old_event_chan' = IF event_tx > 1 THEN EventTrySend(old_event_chan, event)
                                          ELSE old_event_chan
    /\ emitted' = Append(emitted, event)

\* ConnectionManager::emit_event
emit_event(event) ==
    /\ event_chan' = IF event_tx # 0 THEN EventTrySend(event_chan, event) ELSE event_chan
    /\ UNCHANGED old_event_chan
    /\ emitted' = Append(emitted, event)

no_event == UNCHANGED << event_chan, old_event_chan, emitted >>

\* ------------------------------------------------------------------------
\* Initial state: connect_with_config has returned Ok
\* ------------------------------------------------------------------------
MaxAttemptsChoices == {NoValue, 0, 1}

ReconnectConfigs ==
    { [ReconnectConfig_default EXCEPT !.enabled = e, !.max_attempts = m] :
        e \in BOOLEAN, m \in MaxAttemptsChoices }

NothingUsed ==
    [calls |-> 0, frames |-> 0, faults |-> 0, write_errors |-> 0, sends |-> 0, takes |-> 0,
     recvs |-> 0, ticks |-> 0]

\* the state in which connect_with_config returns Ok, for the given policies
\* and the given use of the model's bounds
InitWith(configs, u) ==
    /\ reconnect_config \in configs
    /\ state = "Connected"
    /\ shutdown = FALSE
    /\ command_queue = << >>
    /\ subscriptions = SubscriptionManager_new
    /\ orderbooks = [s \in {} |-> Orderbook_new(s)]
    /\ stored_subscriptions = << >>
    /\ event_tx = 0
    /\ event_chan = << >>
    /\ old_event_chan = << >>
    /\ pc = "start"
    /\ ws_stream = TRUE
    /\ reconnect_attempt = 0
    /\ pending_commands = << >>
    /\ disconnect_reason = "None"
    /\ slept = 0
    /\ heartbeat_running = TRUE
    /\ conn = 0
    /\ written = << >>
    /\ emitted = << >>
    /\ last_frame = F_none
    /\ resub_count = 0
    /\ shutdown_mark = NoValue
    /\ conn_frames = 0
    /\ returned = NoResult
    /\ used = u

Init == InitWith(ReconnectConfigs, NothingUsed)

\* ------------------------------------------------------------------------
\* Consumer API (KrakyClient)
\* ------------------------------------------------------------------------
\* the command receiver lives in ConnectionManager::run and is dropped on return
CommandChannelClosed == pc = "done"

\* UnboundedSender::send: fails, leaving the queue alone, once the receiver is gone
CommandSend(queue, cmd) == IF CommandChannelClosed THEN queue ELSE Append(queue, cmd)

\* SubscriptionSender::new as the subscribe_* functions use it: the sender
\* is registered; the receiving half is returned to the consumer, or dropped
\* when the function returns the error of the command channel instead
RegisteredSender(channel, pair) ==
    [SubscriptionSender_new(channel, pair) EXCEPT !.closed = CommandChannelClosed]

consumerFrame == << reconnect_config, state, shutdown, event_tx, event_chan, old_event_chan, pc,
                    managerLocals, heartbeat_running, conn, written, emitted, histVars >>

\* subscribe_orderbook undoing its work when the command cannot be sent
subscribe_orderbook_rolled_back(pair, depth) ==
    /\ used.calls < MaxCalls
    /\ IF CommandChannelClosed
          THEN UNCHANGED << orderbooks, subscriptions, stored_subscriptions, command_queue >>
          ELSE /\ orderbooks' = MapInsert(orderbooks, pair,
                                          [Orderbook_new(pair) EXCEPT !.reset_at = used.frames])
               /\ subscriptions' = [subscriptions EXCEPT
                                       !.orderbook = Append(@, RegisteredSender("book", pair))]
               /\ stored_subscriptions' =
                     Append(stored_subscriptions, Stored_Orderbook(pair, depth))
               /\ command_queue' =
                     CommandSend(command_queue,
                                 Command_Subscribe(SubscribeRequest_orderbook(<< pair >>, depth)))
    /\ used' = [used EXCEPT !.calls = @ + 1]
    /\ UNCHANGED consumerFrame

subscribe_orderbook(pair, depth) ==
    /\ used.calls < MaxCalls
    /\ orderbooks' = MapInsert(orderbooks, pair,
                                [Orderbook_new(pair) EXCEPT !.reset_at = used.frames])
    /\ subscriptions' = [subscriptions EXCEPT
                            !.orderbook = Append(@, RegisteredSender("book", pair))]
    /\ stored_subscriptions' = Append(stored_subscriptions, Stored_Orderbook(pair, depth))
    /\ command_queue' = CommandSend(command_queue,
                            Command_Subscribe(SubscribeRequest_orderbook(<< pair >>, depth)))
    /\ used' = [used EXCEPT !.calls = @ + 1]
    /\ UNCHANGED consumerFrame

\* subscribe_trades keeping no record for reconnection
subscribe_trades_unstored(pair) ==
    /\ used.calls < MaxCalls
    /\ subscriptions' = [subscriptions EXCEPT
                            !.trades = Append(@, RegisteredSender("trade", pair))]
    /\ command_queue' = CommandSend(command_queue,
                            Command_Subscribe(SubscribeRequest_trades(<< pair >>)))
    /\ used' = [used EXCEPT !.calls = @ + 1]
    /\ UNCHANGED << consumerFrame, orderbooks, stored_subscriptions >>

subscribe_trades(pair) ==
    /\ used.calls < MaxCalls
    /\ subscriptions' = [subscriptions EXCEPT
                            !.trades = Append(@, RegisteredSender("trade", pair))]
    /\ stored_subscriptions' = Append(stored_subscriptions, Stored_Trades(pair))
    /\ command_queue' = CommandSend(command_queue,
                            Command_Subscribe(SubscribeRequest_trades(<< pair >>)))
    /\ used' = [used EXCEPT !.calls = @ + 1]
    /\ UNCHANGED << consumerFrame, orderbooks >>

subscribe_ticker(pair) ==
    /\ used.calls < MaxCalls
    /\ subscriptions' = [subscriptions EXCEPT
                            !.ticker = Append(@, RegisteredSender("ticker", pair))]
    /\ stored_subscriptions' = Append(stored_subscriptions, Stored_Ticker(pair))
    /\ command_queue' = CommandSend(command_queue,
                            Command_Subscribe(SubscribeRequest_ticker(<< pair >>)))
    /\ used' = [used EXCEPT !.calls = @ + 1]
    /\ UNCHANGED << consumerFrame, orderbooks >>

subscribe_ohlc(pair, interval) ==
    /\ used.calls < MaxCalls
    /\ subscriptions' = [subscriptions EXCEPT
                            !.ohlc = Append(@, RegisteredSender("ohlc", pair))]
    /\ stored_subscriptions' = Append(stored_subscriptions, Stored_OHLC(pair, interval))
    /\ command_queue' = CommandSend(command_queue,
                            Command_Subscribe(SubscribeRequest_ohlc(<< pair >>, interval)))
    /\ used' = [used EXCEPT !.calls = @ + 1]
    /\ UNCHANGED << consumerFrame, orderbooks >>

subscribe_events ==
    /\ event_tx < MaxEventSinks
    /\ event_tx' = event_tx + 1
    /\ event_chan' = << >>
    /\ old_event_chan' = event_chan
    /\ UNCHANGED << reconnect_config, state, shutdown, command_queue, subscriptions,
                    orderbooks, stored_subscriptions, pc, managerLocals,
                    heartbeat_running, conn, written, emitted, histVars, used >>

\* place_order / cancel_order / cancel_all_orders / amend_order: enqueue a raw frame
send_raw_command ==
    /\ used.calls < MaxCalls
    /\ command_queue' = CommandSend(command_queue, Command_RawMessage(RawRequest))
    /\ used' = [used EXCEPT !.calls = @ + 1]
    /\ UNCHANGED << consumerFrame, subscriptions, orderbooks, stored_subscriptions >>

\* the JSON request of a trading command: its method and the order id it names
TradingRequest(method, id) ==
    [method |-> method, channel |-> "", symbol |-> id,
     depth |-> NoValue, snapshot |-> FALSE, interval |-> NoValue]

\* the body shared by the four trading commands: the token is generated, the
\* request is put on the command queue and the placeholder is returned
TradingCall(op, request, placeholder, secret_ok) ==
    /\ used.calls < MaxCalls
    /\ IF ~secret_ok
          THEN /\ returned' = Result(op, FALSE, NoValue, used.calls + 1)
               /\ UNCHANGED command_queue
          ELSE /\ command_queue' = CommandSend(command_queue, Command_RawMessage(request))
               /\ returned' = Result(op, ~CommandChannelClosed,
                                     IF CommandChannelClosed THEN NoValue ELSE placeholder,
                                     used.calls + 1)
    /\ used' = [used EXCEPT !.calls = @ + 1]
    /\ UNCHANGED << reconnect_config, state, shutdown, event_tx, event_chan, old_event_chan,
                    pc, managerLocals, heartbeat_running, conn, written, emitted,
                    last_frame, resub_count, shutdown_mark, conn_frames, subscriptions,
                    orderbooks, stored_subscriptions >>

place_order(cl_ord_id, secret_ok) ==
    TradingCall("place_order", TradingRequest("add_order", cl_ord_id),
                [order_id |-> "pending", cl_ord_id |-> cl_ord_id, order_status |-> "Pending"],
                secret_ok)

cancel_order(order_id, secret_ok) ==
    TradingCall("cancel_order", TradingRequest("cancel_order", order_id),
                [order_id |-> order_id, success |-> TRUE], secret_ok)

cancel_all_orders(secret_ok) ==
    TradingCall("cancel_all_orders", TradingRequest("cancel_all", ""),
                [count |-> 0], secret_ok)

amend_order(order_id, secret_ok) ==
    TradingCall("amend_order", TradingRequest("amend_order", order_id),
                [order_id |-> order_id, success |-> TRUE, error |-> NoValue], secret_ok)

disconnect ==
    /\ ~shutdown
    /\ shutdown' = TRUE
    /\ state' = "Disconnected"
    /\ command_queue' = CommandSend(command_queue, Command_Shutdown)
    /\ shutdown_mark' = IF pc \in {"exit", "done"} THEN shutdown_mark ELSE Len(emitted)
    /\ UNCHANGED << reconnect_config, subscriptions, orderbooks, stored_subscriptions,
                    event_tx, event_chan, old_event_chan, pc, managerLocals, heartbeat_running, conn,
                    written, emitted, last_frame, resub_count, conn_frames, returned, used >>

reconnect ==
    /\ used.calls < MaxCalls
    /\ ~shutdown
    /\ command_queue' = CommandSend(command_queue, Command_Reconnect)
    /\ used' = [used EXCEPT !.calls = @ + 1]
    /\ UNCHANGED << consumerFrame, subscriptions, orderbooks, stored_subscriptions >>

\* validate_orderbooks_and_reconnect counting every replica
validate_orderbooks_and_reconnect_count_all ==
    /\ used.calls < MaxCalls
    /\ LET count == Cardinality(DOMAIN orderbooks)
           sent == count > 0 /\ ~shutdown /\ ~CommandChannelClosed
       IN /\ command_queue' = IF sent THEN Append(command_queue, Command_Reconnect)
                                      ELSE command_queue
          /\ returned' = Result("validate_orderbooks_and_reconnect", count = 0 \/ sent,
                                IF count = 0 \/ sent THEN count ELSE NoValue,
                                used.calls + 1)
    /\ used' = [used EXCEPT !.calls = @ + 1]
    /\ UNCHANGED << reconnect_config, state, shutdown, event_tx, event_chan, old_event_chan, pc,
                    managerLocals, heartbeat_running, conn, written, emitted, last_frame,
                    resub_count, shutdown_mark, conn_frames, subscriptions, orderbooks,
                    stored_subscriptions >>

\* validate_orderbooks_and_reconnect: self.reconnect()? fails when shutdown is
\* set or the command channel is closed, and the error is returned
validate_orderbooks_and_reconnect ==
    /\ used.calls < MaxCalls
    /\ LET corrupted == { pair \in DOMAIN orderbooks : ~orderbooks[pair].checksum_valid }
           count == Cardinality(corrupted)
           sent == count > 0 /\ ~shutdown /\ ~CommandChannelClosed
       IN /\ command_queue' = IF sent THEN Append(command_queue, Command_Reconnect)
                                      ELSE command_queue
          /\ returned' = Result("validate_orderbooks_and_reconnect", count = 0 \/ sent,
                                IF count = 0 \/ sent THEN count ELSE NoValue,
                                used.calls + 1)
    /\ used' = [used EXCEPT !.calls = @ + 1]
    /\ UNCHANGED << reconnect_config, state, shutdown, event_tx, event_chan, old_event_chan, pc,
                    managerLocals, heartbeat_running, conn, written, emitted, last_frame,
                    resub_count, shutdown_mark, conn_frames, subscriptions, orderbooks,
                    stored_subscriptions >>

\* Subscription::next on the k-th handle of a registry, when an item is waiting
Subscription_next(registry, k) ==
    /\ k \in 1..Len(subscriptions[registry])
    /\ subscriptions[registry][k].queue # << >>
    /\ subscriptions' = [subscriptions EXCEPT ![registry][k].queue = Tail(@)]
    /\ used' = [used EXCEPT !.takes = @ + 1]
    /\ UNCHANGED << consumerFrame, command_queue, orderbooks, stored_subscriptions >>

\* the Subscription handle (the receiver) is dropped: the channel is closed
Subscription_drop(registry, k) ==
    /\ k \in 1..Len(subscriptions[registry])
    /\ ~subscriptions[registry][k].closed
    /\ subscriptions' = [subscriptions EXCEPT ![registry][k].closed = TRUE,
                                              ![registry][k].queue = << >>]
    /\ UNCHANGED << consumerFrame, command_queue, orderbooks, stored_subscriptions, used >>

\* the n-th item handed to a sender
QueueItem(n) == ToTyped("Trade", TypedData("BTC/USD", n), 0)

\* SubscriptionSender::send called on the k-th sender of a registry
Sender_send(registry, k) ==
    /\ k \in 1..Len(subscriptions[registry])
    /\ used.sends < MaxSends
    /\ subscriptions' = [subscriptions EXCEPT ![registry][k] =
                            SubscriptionSender_send(@, QueueItem(used.sends + 1))]
    /\ returned' = Result("send", SubscriptionSender_send_ok(subscriptions[registry][k]),
                          0, used.sends + 1)
    /\ used' = [used EXCEPT !.sends = @ + 1]
    /\ UNCHANGED << reconnect_config, state, shutdown, event_tx, event_chan, old_event_chan, pc,
                    managerLocals, heartbeat_running, conn, written, emitted, last_frame,
                    resub_count, shutdown_mark, conn_frames, command_queue, orderbooks,
                    stored_subscriptions >>

\* the heartbeat task: one tick of its 30 s interval
HeartbeatTick ==
    /\ heartbeat_running
    /\ used.ticks < MaxTicks
    /\ IF shutdown
          THEN /\ heartbeat_running' = FALSE
               /\ used' = [used EXCEPT !.ticks = @ + 1]
               /\ UNCHANGED command_queue
          ELSE IF state = "Connected"
          THEN IF CommandChannelClosed
                  THEN /\ heartbeat_running' = FALSE
                       /\ used' = [used EXCEPT !.ticks = @ + 1]
                       /\ UNCHANGED command_queue
                  ELSE /\ used.calls < MaxCalls
                       /\ command_queue' = Append(command_queue, Command_Ping)
                       /\ used' = [used EXCEPT !.calls = @ + 1, !.ticks = @ + 1]
                       /\ UNCHANGED heartbeat_running
          ELSE /\ used' = [used EXCEPT !.ticks = @ + 1]
               /\ UNCHANGED << heartbeat_running, command_queue >>
    /\ UNCHANGED << reconnect_config, state, shutdown, subscriptions, orderbooks,
                    stored_subscriptions, event_tx, event_chan, old_event_chan, pc,
                    managerLocals, conn, written, emitted, histVars >>

\* ------------------------------------------------------------------------
\* ConnectionManager::handle_message
\* ------------------------------------------------------------------------
\* the loop "for data in &update.data" applying each entry to its replica
\* (n, the number of the frame, is recorded in the replica as history)
RECURSIVE ApplyBookData(_, _, _)
ApplyBookData(obs, data, n) ==
    IF data = << >> THEN obs
    ELSE LET d == Head(data)
         IN ApplyBookData(IF d.symbol \in DOMAIN obs
                             THEN [obs EXCEPT ![d.symbol] =
                                      [apply_update(@, d) EXCEPT !.applied = n]]
                             ELSE obs,
                          Tail(data), n)

\* the OrderbookUpdate handed to the book subscriptions
\* (conn and frame are history tags: the connection and the number of the frame)
BookItem(msg, c, n) ==
    [kind |-> "Orderbook", symbol |-> "",
     body |-> [channel |-> "book", update_type |-> msg.update_type, data |-> msg.data],
     conn |-> c, frame |-> n]

\* handle_message applying a book update only while no consumer lags behind
handle_message_orderbooks_when_drained(obs, text, n) ==
    LET msg == KrakyMessage_parse(text)
    IN IF /\ msg.tag = "Orderbook"
          /\ \A k \in 1..Len(subscriptions.orderbook) :
                subscriptions.orderbook[k].queue = << >>
          THEN ApplyBookData(obs, msg.data, n)
          ELSE obs

\* handle_message leaving the replicas alone until after the fan-out
handle_message_orderbooks_deferred(obs, text, n) == obs

\* handle_message, lines 1145-1151: the replicas after the frame
handle_message_orderbooks(obs, text, n) ==
    LET msg == KrakyMessage_parse(text)
    IN IF msg.tag = "Orderbook" THEN ApplyBookData(obs, msg.data, n) ELSE obs

\* handle_message, lines 1152-1165: the subscription queues after the frame
handle_message_subscriptions(subs, text, c, n) ==
    LET msg == KrakyMessage_parse(text)
    IN CASE msg.tag = "Orderbook" ->
              [subs EXCEPT !.orderbook = dispatch_orderbook(@, BookItem(msg, c, n), msg.data)]
         [] msg.tag = "Trade" ->
              [subs EXCEPT !.trades = dispatch_typed(@, "Trade", msg.data, c)]
         [] msg.tag = "Ticker" ->
              [subs EXCEPT !.ticker = dispatch_typed(@, "Ticker", msg.data, c)]
         [] msg.tag = "OHLC" ->
              [subs EXCEPT !.ohlc = dispatch_typed(@, "OHLC", msg.data, c)]
         [] OTHER -> subs

\* ------------------------------------------------------------------------
\* ConnectionManager::resubscribe_all
\* ------------------------------------------------------------------------
StoredRequest(sub) ==
    CASE sub.kind = "Orderbook" -> SubscribeRequest_orderbook(<< sub.pair >>, sub.depth)
      [] sub.kind = "Trades" -> SubscribeRequest_trades(<< sub.pair >>)
      [] sub.kind = "Ticker" -> SubscribeRequest_ticker(<< sub.pair >>)
      [] sub.kind = "OHLC" -> SubscribeRequest_ohlc(<< sub.pair >>, sub.interval)

\* resubscribe_all pushing the requests newest first
resubscribe_all_commands_reversed(stored) ==
    [i \in 1..Len(stored) |-> Command_Subscribe(StoredRequest(stored[Len(stored) + 1 - i]))]

resubscribe_all_commands(stored) ==
    [i \in 1..Len(stored) |-> Command_Subscribe(StoredRequest(stored[i]))]

\* resubscribe_all leaving the replicas as they are
resubscribe_all_orderbooks_kept(obs, stored, n) == obs

\* (n, the number of inbound frames so far, is recorded in the replica as history)
resubscribe_all_orderbooks(obs, stored, n) ==
    [s \in DOMAIN obs |->
        IF \E i \in 1..Len(stored) : stored[i].kind = "Orderbook" /\ stored[i].pair = s
           THEN [Orderbook_new(s) EXCEPT !.reset_at = n]
           ELSE obs[s]]

\* ------------------------------------------------------------------------
\* The manager task: ConnectionManager::run and run_message_loop
\* ------------------------------------------------------------------------
\* write.send(...).await: the frame reaches the socket (ok) or the write fails
\* (u is the use of the bounds before the write)
WriteFrame(frame, src, ok, u) ==
    /\ ok \/ used.write_errors < MaxWriteErrors
    /\ written' = Append(written, [frame |-> frame, ok |-> ok, src |-> src])
    /\ used' = IF ok THEN u ELSE [u EXCEPT !.write_errors = @ + 1]

sharedFrame == << reconnect_config, shutdown, command_queue, subscriptions, orderbooks,
                  stored_subscriptions, event_tx, heartbeat_running, histVars >>

\* the start of the manager task without the initial event
ManagerStart_without_event ==
    /\ pc = "start"
    /\ no_event
    /\ pc' = "loop_top"
    /\ UNCHANGED << sharedFrame, state, managerLocals, conn, written, used >>

\* run, line 865: the initial Connected event
ManagerStart ==
    /\ pc = "start"
    /\ emit_event(Ev_Connected)
    /\ pc' = "loop_top"
    /\ UNCHANGED << sharedFrame, state, managerLocals, conn, written, used >>

\* run, lines 867-876 and 968-971: top of the loop
LoopTop ==
    /\ pc = "loop_top"
    /\ IF shutdown
          THEN /\ emit_event(Ev_Disconnected("Shutdown requested"))
               /\ pc' = "exit"
               /\ UNCHANGED << ws_stream, slept >>
          ELSE IF ws_stream
          THEN /\ ws_stream' = FALSE
               /\ pc' = "pending"
               /\ no_event
               /\ UNCHANGED slept
          ELSE /\ pc' = "idle"
               /\ slept' = IDLE_SLEEP_MS
               /\ no_event
               /\ UNCHANGED ws_stream
    /\ UNCHANGED << sharedFrame, state, reconnect_attempt, pending_commands,
                    disconnect_reason, conn, written, used >>

\* run, line 970: the 100 ms sleep without a connection is over
IdleWake ==
    /\ pc = "idle"
    /\ pc' = "loop_top"
    /\ UNCHANGED << sharedFrame, state, managerLocals, conn, written, used,
                    event_chan, old_event_chan, emitted >>

\* run_message_loop, lines 1019-1029: one iteration of the drain of pending_commands
SendPending ==
    /\ pc = "pending"
    /\ IF pending_commands = << >>
          THEN /\ pc' = "select"
               /\ UNCHANGED << pending_commands, written, used >>
          ELSE /\ pc' = "pending"
               /\ pending_commands' = Tail(pending_commands)
               /\ IF Head(pending_commands).type = "Subscribe"
                     THEN \E ok \in BOOLEAN :
                            WriteFrame(Head(pending_commands).request, "pending", ok, used)
                     ELSE UNCHANGED << written, used >>
    /\ UNCHANGED << sharedFrame, state, ws_stream, reconnect_attempt, disconnect_reason,
                    slept, conn, event_chan, old_event_chan, emitted >>

selectFrame == << reconnect_config, state, shutdown, stored_subscriptions, event_tx,
                  event_chan, old_event_chan, ws_stream, reconnect_attempt, pending_commands, slept,
                  heartbeat_running, conn, emitted, resub_count, shutdown_mark >>

\* run_message_loop, lines 1036-1038: a text frame arrives and handle_message
\* runs up to the fan-out of a book update (a book update is fanned out by
\* the next step of the task, FanOut; every other frame is handled whole)
ReadText(text) ==
    /\ pc = "select"
    /\ used.frames < MaxFrames
    /\ orderbooks' = handle_message_orderbooks(orderbooks, text, used.frames + 1)
    /\ IF KrakyMessage_parse(text).tag = "Orderbook"
          THEN /\ pc' = "fanout"
               /\ UNCHANGED subscriptions
          ELSE /\ subscriptions' = handle_message_subscriptions(subscriptions, text, conn,
                                                                used.frames + 1)
               /\ UNCHANGED pc
    /\ last_frame' = text
    /\ conn_frames' = conn_frames + 1
    /\ used' = [used EXCEPT !.frames = @ + 1]
    /\ UNCHANGED << selectFrame, command_queue, disconnect_reason, written, returned >>

\* handle_message, line 1152: the book update is offered to the subscriptions
FanOut ==
    /\ pc = "fanout"
    /\ subscriptions' = handle_message_subscriptions(subscriptions, last_frame, conn,
                                                     used.frames)
    /\ pc' = "select"
    /\ UNCHANGED << selectFrame, command_queue, disconnect_reason, written, orderbooks,
                    last_frame, conn_frames, returned, used >>

\* run_message_loop, lines 1042-1046: a server ping is answered with a pong
ReadPing ==
    /\ pc = "select"
    /\ used.frames < MaxFrames
    /\ \E ok \in BOOLEAN :
         WriteFrame(PongPayload, "read", ok, [used EXCEPT !.frames = @ + 1])
    /\ UNCHANGED << selectFrame, pc, command_queue, disconnect_reason, subscriptions,
                    orderbooks, last_frame, conn_frames, returned >>

\* run_message_loop, lines 1039-1041 and 1047-1052: the read half ends the session
ReadEnd(reason) ==
    /\ pc = "select"
    /\ used.faults < MaxFaults
    /\ disconnect_reason' = reason
    /\ pc' = "after_loop"
    /\ used' = [used EXCEPT !.faults = @ + 1]
    /\ UNCHANGED << selectFrame, command_queue, subscriptions, orderbooks, last_frame,
                    returned,
                    conn_frames, written >>

\* run_message_loop, lines 1058-1094: a command is taken from the queue
RecvCommand ==
    /\ pc = "select"
    /\ command_queue # << >>
    /\ command_queue' = Tail(command_queue)
    /\ LET cmd == Head(command_queue)
       IN CASE cmd.type \in {"Subscribe", "Ping", "RawMessage"} ->
                 /\ \E ok \in BOOLEAN : WriteFrame(cmd.request, "queue", ok, used)
                 /\ UNCHANGED << pc, disconnect_reason >>
            [] cmd.type = "Reconnect" ->
                 /\ disconnect_reason' = "ManualReconnect"
                 /\ pc' = "after_loop"
                 /\ UNCHANGED << written, used >>
            [] cmd.type = "Shutdown" ->
                 /\ disconnect_reason' = "Shutdown"
                 /\ pc' = "after_loop"
                 /\ UNCHANGED << written, used >>
    /\ UNCHANGED << selectFrame, subscriptions, orderbooks, last_frame, conn_frames,
                    returned >>

\* run, lines 883-911: the reason the message loop returned is examined
DisconnectMessage(reason) ==
    CASE reason = "ServerClose" -> "Server closed connection"
      [] reason = "Error" -> "io error"
      [] reason = "StreamEnded" -> "Stream ended"
      [] OTHER -> ""

\* the end of a session announcing a manual reconnect as a disconnection
AfterLoop_announces_manual ==
    /\ pc = "after_loop"
    /\ CASE disconnect_reason = "Shutdown" ->
              /\ emit_event(Ev_Disconnected("Shutdown"))
              /\ pc' = "exit"
              /\ UNCHANGED reconnect_attempt
         [] disconnect_reason = "ManualReconnect" ->
              /\ reconnect_attempt' = 0
              /\ emit_event(Ev_Disconnected("Manual reconnect"))
              /\ pc' = "check_reconnect"
         [] OTHER ->
              /\ emit_event(Ev_Disconnected(DisconnectMessage(disconnect_reason)))
              /\ pc' = "check_reconnect"
              /\ UNCHANGED reconnect_attempt
    /\ UNCHANGED << sharedFrame, state, ws_stream, pending_commands, disconnect_reason,
                    slept, conn, written, used >>

AfterLoop ==
    /\ pc = "after_loop"
    /\ CASE disconnect_reason = "Shutdown" ->
              /\ emit_event(Ev_Disconnected("Shutdown"))
              /\ pc' = "exit"
              /\ UNCHANGED reconnect_attempt
         [] disconnect_reason = "ManualReconnect" ->
              /\ reconnect_attempt' = 0
              /\ no_event
              /\ pc' = "check_reconnect"
         [] OTHER ->
              /\ emit_event(Ev_Disconnected(DisconnectMessage(disconnect_reason)))
              /\ pc' = "check_reconnect"
              /\ UNCHANGED reconnect_attempt
    /\ UNCHANGED << sharedFrame, state, ws_stream, pending_commands, disconnect_reason,
                    slept, conn, written, used >>

\* run, lines 913-927: reconnect at all?  attempts exhausted?
CheckReconnect ==
    /\ pc = "check_reconnect"
    /\ IF ~reconnect_config.enabled \/ shutdown
          THEN /\ state' = "Disconnected"
               /\ pc' = "exit"
               /\ no_event
          ELSE IF reconnect_config.max_attempts # NoValue
                  /\ reconnect_attempt >= reconnect_config.max_attempts
          THEN /\ emit_event(Ev_ReconnectExhausted)
               /\ state' = "Disconnected"
               /\ pc' = "exit"
          ELSE /\ pc' = "set_reconnecting"
               /\ no_event
               /\ UNCHANGED state
    /\ UNCHANGED << sharedFrame, managerLocals, conn, written, used >>

\* run, line 930
SetReconnecting ==
    /\ pc = "set_reconnecting"
    /\ state' = "Reconnecting"
    /\ pc' = "emit_reconnecting"
    /\ UNCHANGED << sharedFrame, managerLocals, conn, written, used, event_chan, old_event_chan, emitted >>

\* EmitReconnecting announcing the number of failed attempts, not of this attempt
EmitReconnecting_unnumbered ==
    /\ pc = "emit_reconnecting"
    /\ emit_event(Ev_Reconnecting(reconnect_attempt))
    /\ slept' = delay_for_attempt(reconnect_config, AttemptNumber(reconnect_attempt))
    /\ pc' = "sleeping"
    /\ UNCHANGED << sharedFrame, state, ws_stream, reconnect_attempt, pending_commands,
                    disconnect_reason, conn, written, used >>

\* EmitReconnecting sleeping the delay of the attempt after this one
EmitReconnecting_late_delay ==
    /\ pc = "emit_reconnecting"
    /\ emit_event(Ev_Reconnecting(reconnect_attempt + 1))
    /\ slept' = delay_for_attempt(reconnect_config, AttemptNumber(reconnect_attempt + 1))
    /\ pc' = "sleeping"
    /\ UNCHANGED << sharedFrame, state, ws_stream, reconnect_attempt, pending_commands,
                    disconnect_reason, conn, written, used >>

\* run, lines 931-941: announce the attempt and go to sleep for the backoff delay
EmitReconnecting ==
    /\ pc = "emit_reconnecting"
    /\ emit_event(Ev_Reconnecting(reconnect_attempt + 1))
    /\ slept' = delay_for_attempt(reconnect_config, AttemptNumber(reconnect_attempt))
    /\ pc' = "sleeping"
    /\ UNCHANGED << sharedFrame, state, ws_stream, reconnect_attempt, pending_commands,
                    disconnect_reason, conn, written, used >>

\* run, lines 941-947: the backoff sleep is over; shutdown is checked again
BackoffWake ==
    /\ pc = "sleeping"
    /\ IF shutdown
          THEN /\ emit_event(Ev_Disconnected("Shutdown during reconnect"))
               /\ pc' = "exit"
          ELSE /\ no_event
               /\ pc' = "connecting"
    /\ UNCHANGED << sharedFrame, state, managerLocals, conn, written, used >>

\* ConnectOk creating the senders of every registry anew
ConnectOk_new_senders ==
    /\ pc = "connecting"
    /\ state' = "Connected"
    /\ conn' = conn + 1
    /\ written' = << >>
    /\ conn_frames' = 0
    /\ pc' = "emit_reconnected"
    /\ subscriptions' =
         [r \in DOMAIN subscriptions |->
            [k \in 1..Len(subscriptions[r]) |->
               SubscriptionSender_new(subscriptions[r][k].channel, subscriptions[r][k].symbol)]]
    /\ UNCHANGED << reconnect_config, shutdown, command_queue, orderbooks,
                    stored_subscriptions, event_tx, heartbeat_running, last_frame,
                    returned,
                    resub_count, shutdown_mark, managerLocals, used, event_chan, old_event_chan, emitted >>

\* ConnectOk starting the new connection with an empty command queue
ConnectOk_fresh_queue ==
    /\ pc = "connecting"
    /\ state' = "Connected"
    /\ conn' = conn + 1
    /\ written' = << >>
    /\ conn_frames' = 0
    /\ pc' = "emit_reconnected"
    /\ command_queue' = << >>
    /\ UNCHANGED << reconnect_config, shutdown, subscriptions, orderbooks,
                    stored_subscriptions, event_tx, heartbeat_running, last_frame,
                    returned,
                    resub_count, shutdown_mark, managerLocals, used, event_chan, old_event_chan, emitted >>

\* run, lines 949-952: create_connection returned Ok
ConnectOk ==
    /\ pc = "connecting"
    /\ state' = "Connected"
    /\ conn' = conn + 1
    /\ written' = << >>
    /\ conn_frames' = 0
    /\ pc' = "emit_reconnected"
    /\ UNCHANGED << reconnect_config, shutdown, command_queue, subscriptions, orderbooks,
                    stored_subscriptions, event_tx, heartbeat_running, last_frame,
                    returned,
                    resub_count, shutdown_mark, managerLocals, used, event_chan, old_event_chan, emitted >>

\* the Ok arm taking out of the queue the subscribe commands that
\* resubscribe_all is about to issue again
EmitReconnected_deduplicating ==
    /\ pc = "emit_reconnected"
    /\ emit_event(Ev_Reconnected)
    /\ reconnect_attempt' = 0
    /\ ws_stream' = TRUE
    /\ orderbooks' = resubscribe_all_orderbooks(orderbooks, stored_subscriptions, used.frames)
    /\ pending_commands' = pending_commands \o resubscribe_all_commands(stored_subscriptions)
    /\ resub_count' = Len(stored_subscriptions)
    /\ pc' = "loop_top"
    /\ command_queue' = SelectSeq(command_queue, LAMBDA c : c.type # "Subscribe")
    /\ UNCHANGED << reconnect_config, shutdown, subscriptions,
                    stored_subscriptions, event_tx, heartbeat_running, last_frame,
                    returned,
                    shutdown_mark, conn_frames, state, disconnect_reason, slept, conn,
                    written, used >>

\* run, lines 953-958: the rest of the Ok arm, with resubscribe_all
EmitReconnected ==
    /\ pc = "emit_reconnected"
    /\ emit_event(Ev_Reconnected)
    /\ reconnect_attempt' = 0
    /\ ws_stream' = TRUE
    /\ orderbooks' = resubscribe_all_orderbooks(orderbooks, stored_subscriptions, used.frames)
    /\ pending_commands' = pending_commands \o resubscribe_all_commands(stored_subscriptions)
    /\ resub_count' = Len(stored_subscriptions)
    /\ pc' = "loop_top"
    /\ UNCHANGED << reconnect_config, shutdown, command_queue, subscriptions,
                    stored_subscriptions, event_tx, heartbeat_running, last_frame,
                    returned,
                    shutdown_mark, conn_frames, state, disconnect_reason, slept, conn,
                    written, used >>

\* run, lines 960-966: create_connection returned Err
ConnectErr ==
    /\ pc = "connecting"
    /\ emit_event(Ev_ReconnectFailed(reconnect_attempt + 1, "connect error"))
    /\ reconnect_attempt' = reconnect_attempt + 1
    /\ ws_stream' = FALSE
    /\ pc' = "loop_top"
    /\ UNCHANGED << sharedFrame, state, pending_commands, disconnect_reason, slept,
                    conn, written, used >>

\* the return from run without the final store
ManagerExit_keeps_state ==
    /\ pc = "exit"
    /\ pc' = "done"
    /\ UNCHANGED << sharedFrame, state, managerLocals, conn, written, used, event_chan,
                    old_event_chan, emitted >>

\* run, line 974: the loop was left; the command receiver is dropped on return
ManagerExit ==
    /\ pc = "exit"
    /\ state' = "Disconnected"
    /\ pc' = "done"
    /\ UNCHANGED << sharedFrame, managerLocals, conn, written, used, event_chan, old_event_chan, emitted >>

\* ------------------------------------------------------------------------
\* Specification
\* ------------------------------------------------------------------------
\* steps the manager task takes on its own once it is scheduled
ManagerProgress ==
    \/ ManagerStart \/ LoopTop \/ IdleWake \/ SendPending \/ RecvCommand
    \/ AfterLoop \/ CheckReconnect \/ SetReconnecting \/ EmitReconnecting
    \/ BackoffWake \/ ConnectOk \/ ConnectErr \/ EmitReconnected \/ ManagerExit

ManagerStep ==
    \/ ManagerStart
    \/ LoopTop
    \/ IdleWake
    \/ SendPending
    \/ RecvCommand
    \/ AfterLoop
    \/ CheckReconnect
    \/ SetReconnecting
    \/ EmitReconnecting
    \/ BackoffWake
    \/ ConnectOk
    \/ ConnectErr
    \/ EmitReconnected
    \/ ManagerExit

ReadEnds == \E reason \in {"ServerClose", "Error", "StreamEnded"} : ReadEnd(reason)

\* The connection life cycle: every reconnect policy, the three ways the read
\* half ends a session, shutdown, manual reconnect and the event sink.
Next ==
    \/ ManagerStep
    \/ ReadEnds
    \/ subscribe_events
    \/ disconnect
    \/ reconnect

Spec == Init /\ [][Next]_vars

FairSpec == Spec /\ WF_vars(ManagerProgress)

\* Re-subscription: the default policy, the four subscribe operations with
\* their parameters, trading commands, failed writes, faults, shutdown and
\* manual reconnect.
InitResub == InitWith({ReconnectConfig_default}, NothingUsed)

NextResub ==
    \/ ManagerStep
    \/ ReadEnd("Error")
    \/ \E pair \in Symbols, depth \in Depths : subscribe_orderbook(pair, depth)
    \/ \E pair \in Symbols : subscribe_trades(pair)
    \/ \E pair \in Symbols : subscribe_ticker(pair)
    \/ \E pair \in Symbols, interval \in Intervals : subscribe_ohlc(pair, interval)
    \/ send_raw_command
    \/ disconnect
    \/ reconnect

ResubSpec == InitResub /\ [][NextResub]_vars

\* Writes: the default policy, one trade subscription, trading commands,
\* heartbeat and server pings, failed writes, faults, shutdown and manual
\* reconnect.
NextWrite ==
    \/ ManagerStep
    \/ ReadPing
    \/ ReadEnd("Error")
    \/ subscribe_trades("BTC/USD")
    \/ send_raw_command
    \/ HeartbeatTick
    \/ disconnect
    \/ reconnect

WriteSpec == InitResub /\ [][NextWrite]_vars

\* Backoff: delay_for_attempt applied to attempt numbers from both halves of
\* the u32 range under policies with several initial delays, multipliers
\* (among them 1.5 of ReconnectConfig::aggressive and one below 1) and caps.
InitialDelays == {0, 100, 500, 1000}
Multipliers == { << 1, 2 >>, << 1, 1 >>, << 3, 2 >>, << 2, 1 >> }
MaxDelays == {400, 5000, 30000}
AttemptNumbers ==
    { U32(0, n) : n \in 0..10 } \cup { U32(65535, 65535), U32(65535, 65534) }

BackoffConfigs ==
    { [ReconnectConfig_default EXCEPT !.initial_delay = i, !.backoff_multiplier = m,
                                      !.max_delay = x] :
        i \in InitialDelays, m \in Multipliers, x \in MaxDelays }

InitBackoff == InitWith(BackoffConfigs, NothingUsed)

delay_for_attempt_call(attempt) ==
    /\ returned' = Result("delay_for_attempt", TRUE,
                          delay_for_attempt(reconnect_config, attempt), attempt)
    /\ UNCHANGED << reconnect_config, state, shutdown, command_queue, subscriptions,
                    orderbooks, stored_subscriptions, event_tx, event_chan, old_event_chan,
                    pc, managerLocals, heartbeat_running, conn, written, emitted,
                    last_frame, resub_count, shutdown_mark, conn_frames, used >>

NextBackoff == \E attempt \in AttemptNumbers : delay_for_attempt_call(attempt)

BackoffSpec == InitBackoff /\ [][NextBackoff]_vars

\* Stored subscriptions: the default policy, the four subscribe operations,
\* consumers dropping their handles, the provider refusing a subscribe
\* request, faults, shutdown and manual reconnect; every socket write succeeds.
NextStored ==
    \/ ManagerStep
    \/ ReadEnd("Error")
    \/ ReadText(F_rejected)
    \/ \E pair \in Symbols : subscribe_orderbook(pair, 10)
    \/ subscribe_trades("BTC/USD")
    \/ subscribe_ticker("BTC/USD")
    \/ subscribe_ohlc("BTC/USD", 1)
    \/ \E registry \in {"orderbook", "trades", "ticker", "ohlc"}, k \in 1..MaxCalls :
          Subscription_drop(registry, k)
    \/ disconnect
    \/ reconnect

InitStored ==
    InitWith({ReconnectConfig_default}, [NothingUsed EXCEPT !.write_errors = MaxWriteErrors])

StoredSpec == InitStored /\ [][NextStored]_vars

\* Trading: the default policy, the four trading commands with good and bad
\* API secrets, the provider answering the requests it was sent, faults,
\* shutdown and manual reconnect.
OrderIds == {"O1", "O2"}

\* the provider's answer to a request: the method and order id echoed, and
\* whether the command was accepted
TradingResponse(request, accepted) ==
    Frame(TRUE, request.method, "", TRUE, "",
          << [order_id |-> request.symbol, success |-> accepted] >>)

ProviderResponds ==
    \E i \in 1..Len(written), accepted \in BOOLEAN :
        /\ written[i].ok
        /\ written[i].src = "queue"
        /\ written[i].frame.method \in {"add_order", "cancel_order", "cancel_all", "amend_order"}
        /\ ReadText(TradingResponse(written[i].frame, accepted))

NextTrading ==
    \/ ManagerStep
    \/ ReadEnd("Error")
    \/ \E id \in OrderIds, secret_ok \in BOOLEAN : place_order(id, secret_ok)
    \/ \E id \in OrderIds, secret_ok \in BOOLEAN : cancel_order(id, secret_ok)
    \/ \E secret_ok \in BOOLEAN : cancel_all_orders(secret_ok)
    \/ \E id \in OrderIds, secret_ok \in BOOLEAN : amend_order(id, secret_ok)
    \/ ProviderResponds
    \/ disconnect
    \/ reconnect

TradingSpec == InitResub /\ [][NextTrading]_vars

\* Outage: the default policy; the consumer subscribes, places orders and
\* asks for a reconnection only while the manager task holds no connection
\* (from the end of a session to the end of the handshake); a book snapshot
\* arrives on either connection; faults, failing writes and shutdown.
NoLiveConnection ==
    pc \in {"after_loop", "check_reconnect", "set_reconnecting", "emit_reconnecting",
            "sleeping", "connecting"}

NextOutage ==
    \/ ManagerStep
    \/ ReadEnd("Error")
    \/ NoLiveConnection /\ \E id \in OrderIds : place_order(id, TRUE)
    \/ NoLiveConnection /\ subscribe_trades("BTC/USD")
    \/ NoLiveConnection /\ subscribe_orderbook("BTC/USD", 10)
    \/ NoLiveConnection /\ reconnect
    \/ ReadText(F_snapshotA)
    \/ FanOut
    \/ disconnect

OutageSpec == InitResub /\ [][NextOutage]_vars

\* Provider errors: KrakenApiError::parse applied to strings put together
\* from a first character, a category, a colon and a message, each of which
\* may be missing.
FirstChars == { << >>, << "E" >>, << "W" >>, << "X" >>, << "U+00E9" >> }
CategoryStrings ==
    { CategoryNames[tag] : tag \in DOMAIN CategoryNames } \cup { << >>, << "F", "o", "o" >> }
Separators == { << >>, << ":" >> }
Messages ==
    { << >>, << "a" >>, << " ", "a" >>, << "a", " " >>, << " " >>, << "a", ":", "b" >>,
      << "B", "u", "s", "y" >> }

ErrorStrings ==
    { first \o category \o separator \o message :
        first \in FirstChars, category \in CategoryStrings,
        separator \in Separators, message \in Messages }

parse_call(error) ==
    /\ returned' = KrakenApiError_parse(error)
    /\ UNCHANGED << reconnect_config, state, shutdown, command_queue, subscriptions,
                    orderbooks, stored_subscriptions, event_tx, event_chan, old_event_chan,
                    pc, managerLocals, heartbeat_running, conn, written, emitted,
                    last_frame, resub_count, shutdown_mark, conn_frames, used >>

NextParse == \E error \in ErrorStrings : parse_call(error)

ParseSpec == InitResub /\ [][NextParse]_vars

\* Tokens: Credentials::generate_token called twice, with secrets that are
\* and are not base64 and with nonces one apart and far apart; the result of
\* the first call is kept beside the second.
SECRET_TEST == << "d", "G", "V", "z", "d", "F", "9", "z", "Z", "W", "N", "y", "Z", "X", "Q", "=" >>
SECRET_UNPADDED == << "c", "2", "V", "j", "c", "m", "V", "0" >>
SECRET_NOT_BASE64 ==
    << "n", "o", "t", "-", "v", "a", "l", "i", "d", "-", "b", "a", "s", "e", "6", "4", "!" >>
SECRET_SHORT == << "d", "G", "V", "z", "d", "A" >>
ApiSecrets == { SECRET_TEST, SECRET_UNPADDED, SECRET_NOT_BASE64, SECRET_SHORT }
Nonces == { 0, 1234567890, 1234567891 }

generate_token_call(api_secret, nonce) ==
    /\ IF returned.op = "" THEN TRUE ELSE returned.at[3].op = ""
    /\ returned' = [generate_token(api_secret, nonce) EXCEPT
                       !.at = << api_secret, nonce,
                                 IF returned.op = "" THEN NoResult
                                 ELSE [returned EXCEPT !.at = << @[1], @[2] >>] >>]
    /\ UNCHANGED << reconnect_config, state, shutdown, command_queue, subscriptions,
                    orderbooks, stored_subscriptions, event_tx, event_chan, old_event_chan,
                    pc, managerLocals, heartbeat_running, conn, written, emitted,
                    last_frame, resub_count, shutdown_mark, conn_frames, used >>

NextToken == \E api_secret \in ApiSecrets, nonce \in Nonces : generate_token_call(api_secret, nonce)

TokenSpec == InitResub /\ [][NextToken]_vars

\* Heartbeat: every reconnect policy, the ticks of the heartbeat task, faults,
\* shutdown and manual reconnect.
NextHeartbeat ==
    \/ ManagerStep
    \/ ReadEnd("Error")
    \/ HeartbeatTick
    \/ disconnect
    \/ reconnect

HeartbeatSpec == Init /\ [][NextHeartbeat]_vars

\* Market data: the default policy, book and trade subscriptions, inbound text
\* frames, consumers taking items, faults, shutdown and manual reconnect; every
\* socket write succeeds.
InitData ==
    InitWith({ReconnectConfig_default}, [NothingUsed EXCEPT !.write_errors = MaxWriteErrors])

NextData ==
    \/ ManagerStep
    \/ \E text \in TextFrames : ReadText(text)
    \/ FanOut
    \/ ReadEnd("Error")
    \/ \E pair \in Symbols : subscribe_orderbook(pair, 10)
    \/ \E pair \in Symbols : subscribe_trades(pair)
    \/ \E registry \in {"orderbook", "trades"}, k \in 1..MaxCalls :
          Subscription_next(registry, k)
    \/ disconnect
    \/ reconnect

DataSpec == InitData /\ [][NextData]_vars

\* Fan-out: the default policy, subscriptions of three channels for a symbol
\* or for "*", consumers dropping their handles, and trade, ticker and book
\* frames for one symbol or for two, faults and shutdown; every socket write
\* succeeds.
F_tradeBTC == Frame(TRUE, "", "trade", TRUE, "update", << TypedData("BTC/USD", "t5") >>)
F_tradeBoth ==
    Frame(TRUE, "", "trade", TRUE, "update",
          << TypedData("ETH/USD", "t6"), TypedData("BTC/USD", "t7") >>)
F_ticker == Frame(TRUE, "", "ticker", TRUE, "update", << TypedData("BTC/USD", "t8") >>)
FanOutFrames == { F_tradeBTC, F_tradeBoth, F_ticker, F_snapshotA }
SymbolFilters == Symbols \cup { "*" }

NextDispatch ==
    \/ ManagerStep
    \/ \E text \in FanOutFrames : ReadText(text)
    \/ FanOut
    \/ subscribe_orderbook("BTC/USD", 10)
    \/ \E pair \in SymbolFilters : subscribe_trades(pair)
    \/ subscribe_ticker("ETH/USD")
    \/ \E registry \in {"orderbook", "trades", "ticker"}, k \in 1..MaxCalls :
          Subscription_drop(registry, k)
    \/ ReadEnd("Error")
    \/ disconnect

DispatchSpec == InitData /\ [][NextDispatch]_vars

\* The replica: one connection, one book subscription, book frames with and
\* without checksums, consumers taking items; every socket write succeeds.
NextBook ==
    \/ ManagerStart
    \/ LoopTop
    \/ SendPending
    \/ RecvCommand
    \/ \E text \in BookFrames : ReadText(text)
    \/ FanOut
    \/ subscribe_orderbook("BTC/USD", 10)
    \/ \E k \in 1..MaxCalls : Subscription_next("orderbook", k)

BookSpec == InitData /\ [][NextBook]_vars

\* Validation: the default policy, book subscriptions, book frames with
\* checksums, validate_orderbooks_and_reconnect, faults and shutdown; every
\* socket write succeeds.
ChecksumFrames == { F_sumok, F_sumbad }

NextValidate ==
    \/ ManagerStep
    \/ \E text \in ChecksumFrames : ReadText(text)
    \/ FanOut
    \/ ReadEnd("Error")
    \/ \E pair \in Symbols : subscribe_orderbook(pair, 10)
    \/ validate_orderbooks_and_reconnect
    \/ disconnect

ValidateSpec == InitData /\ [][NextValidate]_vars

\* Events: the default policy with the event channel empty, one short of
\* full, or full. The loaded channels are those of a client that has gone
\* through EVENT_BUFFER_SIZE / 2 manual reconnections, each emitting
\* Reconnecting(1) and Reconnected, while nobody received from the sink; the
\* sink was registered right after the initial Connected event (full) or
\* right after the first Reconnecting(1) (one short of full).
ManualCycles(k) ==
    [i \in 1..(2 * k) |-> IF i % 2 = 1 THEN Ev_Reconnecting(1) ELSE Ev_Reconnected]

AfterManualCycles(k, missed) ==
    /\ reconnect_config = ReconnectConfig_default
    /\ state = "Connected"
    /\ shutdown = FALSE
    /\ command_queue = << >>
    /\ subscriptions = SubscriptionManager_new
    /\ orderbooks = [s \in {} |-> Orderbook_new(s)]
    /\ stored_subscriptions = << >>
    /\ event_tx = 1
    /\ event_chan = SubSeq(ManualCycles(k), missed + 1, 2 * k)
    /\ old_event_chan = << >>
    /\ pc = "loop_top"
    /\ ws_stream = TRUE
    /\ reconnect_attempt = 0
    /\ pending_commands = << >>
    /\ disconnect_reason = "ManualReconnect"
    /\ slept = delay_for_attempt(ReconnectConfig_default, AttemptNumber(0))
    /\ heartbeat_running = TRUE
    /\ conn = k
    /\ written = << >>
    /\ emitted = << Ev_Connected >> \o ManualCycles(k)
    /\ last_frame = F_none
    /\ resub_count = 0
    /\ shutdown_mark = NoValue
    /\ conn_frames = 0
    /\ returned = NoResult
    /\ used = NothingUsed

InitEvents ==
    \/ InitWith({ReconnectConfig_default}, NothingUsed)
    \/ \E missed \in {0, 1} : AfterManualCycles(EVENT_BUFFER_SIZE \div 2, missed)

\* Receiver::recv on the event sink, when an event is waiting
EventReceiver_recv ==
    /\ event_tx # 0
    /\ event_chan # << >>
    /\ used.recvs < MaxEventRecvs
    /\ event_chan' = Tail(event_chan)
    /\ used' = [used EXCEPT !.recvs = @ + 1]
    /\ UNCHANGED << reconnect_config, state, shutdown, command_queue, subscriptions,
                    orderbooks, stored_subscriptions, event_tx, old_event_chan, pc,
                    managerLocals, heartbeat_running, conn, written, emitted, histVars >>

\* the receiver returned by the earlier subscribe_events call takes what its
\* channel still holds
OldEventReceiver_recv ==
    /\ event_tx > 1
    /\ old_event_chan # << >>
    /\ used.recvs < MaxEventRecvs
    /\ old_event_chan' = Tail(old_event_chan)
    /\ used' = [used EXCEPT !.recvs = @ + 1]
    /\ UNCHANGED << reconnect_config, state, shutdown, command_queue, subscriptions,
                    orderbooks, stored_subscriptions, event_tx, event_chan, pc,
                    managerLocals, heartbeat_running, conn, written, emitted, histVars >>

NextEvents ==
    \/ ManagerStep
    \/ ReadEnd("Error")
    \/ subscribe_events
    \/ EventReceiver_recv
    \/ OldEventReceiver_recv
    \/ disconnect
    \/ reconnect

EventSpec == InitEvents /\ [][NextEvents]_vars

\* One subscription queue on its own: a sender created by with_config with a
\* small buffer, sends, receives and the drop of the receiver.
InitQueue ==
    /\ \E buffer_size \in 1..MaxCapacity :
          subscriptions = [SubscriptionManager_new EXCEPT !.trades =
              << SubscriptionSender_with_config("trade", "BTC/USD", buffer_size) >>]
    /\ reconnect_config = ReconnectConfig_default
    /\ state = "Connected"
    /\ shutdown = FALSE
    /\ command_queue = << >>
    /\ orderbooks = [s \in {} |-> Orderbook_new(s)]
    /\ stored_subscriptions = << >>
    /\ event_tx = 0
    /\ event_chan = << >>
    /\ old_event_chan = << >>
    /\ pc = "start"
    /\ ws_stream = TRUE
    /\ reconnect_attempt = 0
    /\ pending_commands = << >>
    /\ disconnect_reason = "None"
    /\ slept = 0
    /\ heartbeat_running = TRUE
    /\ conn = 0
    /\ written = << >>
    /\ emitted = << >>
    /\ last_frame = F_none
    /\ resub_count = 0
    /\ shutdown_mark = NoValue
    /\ conn_frames = 0
    /\ returned = NoResult
    /\ used = NothingUsed

NextQueue ==
    \/ Sender_send("trades", 1)
    \/ Subscription_next("trades", 1)
    \/ Subscription_drop("trades", 1)

QueueSpec == InitQueue /\ [][NextQueue]_vars

\* ------------------------------------------------------------------------
\* Properties
\* ------------------------------------------------------------------------
EventTypes(events) == { events[i].type : i \in 1..Len(events) }

MayAttemptAgain ==
    \/ reconnect_config.max_attempts = NoValue
    \/ reconnect_attempt < reconnect_config.max_attempts

\* C1: once a reconnection attempt has failed (ReconnectFailed(n) emitted, the
\* attempt counter incremented, no connection held) and the attempts are not
\* exhausted, the manager goes on to another connection attempt, unless
\* shutdown is requested.
C1_RetryAfterFailedAttempt ==
    (pc = "loop_top" /\ ~ws_stream /\ reconnect_attempt >= 1 /\ ~shutdown /\ MayAttemptAgain)
        ~> (pc = "connecting" \/ shutdown)

\* C2: with max_attempts = Some(m), once m consecutive attempts have failed the
\* manager emits ReconnectExhausted, stores Disconnected and terminates,
\* unless shutdown is requested; it does not stay in Reconnecting forever.
C2_ExhaustionTerminates ==
    (/\ pc = "loop_top" /\ ~ws_stream /\ ~shutdown
     /\ reconnect_config.max_attempts # NoValue
     /\ reconnect_attempt >= 1
     /\ reconnect_attempt >= reconnect_config.max_attempts)
        ~> (\/ shutdown
            \/ /\ pc = "done"
               /\ state = "Disconnected"
               /\ "ReconnectExhausted" \in EventTypes(emitted))

\* the text carried by the Disconnected event of an involuntary disconnect
ExpectedDisconnectText ==
    [ServerClose |-> "Server closed connection", Error |-> "io error",
     StreamEnded |-> "Stream ended"]

\* C3: when a session ends for a reason other than shutdown or manual
\* reconnect, reconnection is enabled and the first re-handshake succeeds, the
\* events emitted are Disconnected(reason), Reconnecting(1), Reconnected, in
\* that order, and an attached sink receives them in that order; the state is
\* Reconnecting from before Reconnecting(1) is emitted until the handshake
\* succeeds, and Connected before Reconnected is emitted.
C3_ReconnectEventOrder ==
    /\ (/\ pc \in {"loop_top", "pending", "select"}
        /\ emitted # << >>
        /\ Last(emitted) = Ev_Reconnected
        /\ disconnect_reason \in DOMAIN ExpectedDisconnectText)
         => /\ Len(emitted) >= 3
            /\ SubSeq(emitted, Len(emitted) - 2, Len(emitted)) =
                 << Ev_Disconnected(ExpectedDisconnectText[disconnect_reason]),
                    Ev_Reconnecting(1), Ev_Reconnected >>
    /\ IsSuffix(event_chan, emitted)
    /\ (~shutdown /\ pc \in {"emit_reconnecting", "sleeping", "connecting"})
         => state = "Reconnecting"
    /\ (~shutdown /\ pc = "emit_reconnected") => state = "Connected"

C3_Witness ==
    /\ pc = "select"
    /\ state = "Connected"
    /\ conn = 1
    /\ disconnect_reason = "ServerClose"
    /\ event_chan = << Ev_Connected, Ev_Disconnected("Server closed connection"),
                       Ev_Reconnecting(1), Ev_Reconnected >>

\* C7: once disconnect() has been called on a running manager, the manager
\* terminates with state Disconnected and the last event it emitted is a
\* Disconnected event.
C7_ShutdownEmitsDisconnected ==
    (pc = "done" /\ shutdown_mark # NoValue)
        => /\ state = "Disconnected"
           /\ emitted # << >>
           /\ Last(emitted).type = "Disconnected"

\* the subscribe frame that re-establishes a stored subscription
ExpectedResubscribeFrame(sub) ==
    [method |-> "subscribe",
     channel |-> CASE sub.kind = "Orderbook" -> "book"
                   [] sub.kind = "Trades" -> "trade"
                   [] sub.kind = "Ticker" -> "ticker"
                   [] sub.kind = "OHLC" -> "ohlc",
     symbol |-> << sub.pair >>,
     depth |-> sub.depth,
     snapshot |-> TRUE,
     interval |-> sub.interval]

\* C4: on every connection made by a reconnection, the first frames handed to
\* the socket are the subscribe frames of the stored subscriptions, one per
\* entry, in stored order and with the stored channel, symbol and depth or
\* interval; they all precede every frame written for a command taken from the
\* command queue, and all of them have been written when the manager starts
\* to serve the queue.
C4_ResubscribeBeforeQueue ==
    (conn >= 1 /\ pc \in {"pending", "select", "after_loop"})
        => /\ resub_count <= Len(stored_subscriptions)
           /\ IF pc = "pending"
                 THEN Len(written) + Len(pending_commands) = resub_count
                 ELSE Len(written) >= resub_count
           /\ \A i \in 1..Len(written) :
                 IF i <= resub_count
                    THEN /\ written[i].frame = ExpectedResubscribeFrame(stored_subscriptions[i])
                         /\ written[i].src = "pending"
                    ELSE written[i].src # "pending"
           /\ \A i \in 1..Len(pending_commands) :
                 pending_commands[i] =
                    Command_Subscribe(ExpectedResubscribeFrame(
                        stored_subscriptions[Len(written) + i]))

C4_Witness ==
    /\ conn = 1
    /\ pc = "select"
    /\ resub_count = 2
    /\ stored_subscriptions = << Stored_Orderbook("BTC/USD", 25), Stored_OHLC("ETH/USD", 5) >>
    /\ Len(written) = 3
    /\ written[1].frame.channel = "book" /\ written[1].frame.depth = 25
    /\ written[2].frame.channel = "ohlc" /\ written[2].frame.interval = 5
    /\ written[3].src = "queue"
    /\ \A i \in 1..3 : written[i].ok

IsFreshReplica(ob, symbol) ==
    /\ ob.symbol = symbol
    /\ DOMAIN ob.bids = {}
    /\ DOMAIN ob.asks = {}
    /\ ob.sequence = 0
    /\ ob.checksum_valid = TRUE

\* C5: from the end of a reconnection until the first text frame of the new
\* connection is handled, hence while the re-subscribe frames are written,
\* every symbol with a stored order-book subscription has a fresh empty
\* replica: no bids, no asks, sequence 0, checksum_valid true.
C5_FreshReplicaOnReconnect ==
    (conn >= 1 /\ conn_frames = 0 /\ pc # "emit_reconnected")
        => \A i \in 1..Len(stored_subscriptions) :
              stored_subscriptions[i].kind = "Orderbook"
                 => /\ stored_subscriptions[i].pair \in DOMAIN orderbooks
                    /\ IsFreshReplica(orderbooks[stored_subscriptions[i].pair],
                                      stored_subscriptions[i].pair)

C5_Witness ==
    /\ conn = 1
    /\ conn_frames = 0
    /\ pc = "pending"
    /\ pending_commands = << Command_Subscribe(SubscribeRequest_orderbook(<< "BTC/USD" >>, 10)) >>
    /\ stored_subscriptions = << Stored_Orderbook("BTC/USD", 10) >>
    /\ last_frame = F_update
    /\ used.frames = 2
    /\ subscriptions.orderbook[1].delivered = 2
    /\ IsFreshReplica(orderbooks["BTC/USD"], "BTC/USD")

ReconnectPath ==
    {"after_loop", "check_reconnect", "set_reconnecting", "emit_reconnecting",
     "sleeping", "connecting", "emit_reconnected"}

\* C6: no step the manager takes from the end of a session to the start of
\* the next changes the subscription registries (entries, queues, closed
\* flags, delivered and dropped counters); a trade item of the current
\* connection is appended to the queue of every open, non-full handle
\* subscribed to its symbol, whichever connection the handle was created on.
C6_ReconnectKeepsSubscriptions ==
    [][/\ (pc' # pc /\ (pc \in ReconnectPath \/ pc' \in ReconnectPath))
            => subscriptions' = subscriptions
       /\ (/\ conn_frames' = conn_frames + 1
           /\ last_frame'.valid_json /\ last_frame'.well_formed
           /\ last_frame'.channel = "trade" /\ Len(last_frame'.data) = 1)
            => \A k \in 1..Len(subscriptions.trades) :
                  LET old == subscriptions.trades[k]
                      new == subscriptions'.trades[k]
                      d == last_frame'.data[1]
                  IN (old.symbol = d.symbol /\ ~old.closed /\ Len(old.queue) < old.capacity)
                        => /\ new.queue = Append(old.queue,
                                                 [kind |-> "Trade", symbol |-> d.symbol,
                                                  body |-> d, conn |-> conn])
                           /\ new.delivered = old.delivered + 1
                           /\ new.dropped = old.dropped
      ]_vars

C6_Witness ==
    /\ conn = 1
    /\ Len(subscriptions.trades) = 1
    /\ subscriptions.trades[1].symbol = "ETH/USD"
    /\ Len(subscriptions.trades[1].queue) = 2
    /\ subscriptions.trades[1].queue[1].conn = 0
    /\ subscriptions.trades[1].queue[2].conn = 1
    /\ subscriptions.trades[1].delivered = 2
    /\ ~subscriptions.trades[1].closed

\* a text frame on which KrakyMessage::parse returns Err
FailsToParse(text) ==
    \/ ~text.valid_json
    \/ /\ text.method \notin {"pong", "subscribe", "unsubscribe"}
       /\ text.channel \in {"status", "book", "trade", "ticker", "ohlc"}
       /\ ~text.well_formed

\* C9: handling a text frame that fails to parse changes no replica and no
\* subscription (nothing is delivered), leaves the connection state as it
\* was, emits no event, and leaves the manager in the message loop, ready for
\* the next frame.
C9_ParseFailureDiscarded ==
    [][(conn_frames' = conn_frames + 1 /\ FailsToParse(last_frame'))
          => /\ orderbooks' = orderbooks
             /\ subscriptions' = subscriptions
             /\ state' = state
             /\ emitted' = emitted
             /\ pc' = "select"
             /\ disconnect_reason' = disconnect_reason]_vars

C9_Witness ==
    /\ pc = "select"
    /\ state = "Connected"
    /\ conn_frames = 2
    /\ last_frame = F_badbook
    /\ "BTC/USD" \in DOMAIN orderbooks
    /\ orderbooks["BTC/USD"].sequence = 1
    /\ DOMAIN orderbooks["BTC/USD"].bids = {99, 100}
    /\ DOMAIN orderbooks["BTC/USD"].asks = {101}
    /\ Len(subscriptions.orderbook) = 1
    /\ subscriptions.orderbook[1].delivered = 1

\* the levels a side holds, and the non-zero levels a message lists
SideLevels(side) == { << p, side[p] >> : p \in DOMAIN side }
NonZeroLevels(levels) ==
    { << levels[i].price, levels[i].qty >> : i \in { j \in 1..Len(levels) : levels[j].qty # 0 } }

\* C10: after a book message of type snapshot has been handled, the replica
\* of each symbol it lists holds exactly the non-zero levels of the snapshot.
C10_SnapshotReplacesReplica ==
    [][(/\ conn_frames' = conn_frames + 1
        /\ last_frame'.valid_json /\ last_frame'.well_formed
        /\ last_frame'.channel = "book" /\ last_frame'.type = "snapshot")
          => \A i \in 1..Len(last_frame'.data) :
                LET d == last_frame'.data[i]
                IN d.symbol \in DOMAIN orderbooks
                      => /\ SideLevels(orderbooks'[d.symbol].bids) = NonZeroLevels(d.bids)
                         /\ SideLevels(orderbooks'[d.symbol].asks) = NonZeroLevels(d.asks)]_vars

\* C8: a failed write of a frame (subscribe, ping, pong, raw command) ends the
\* session: the manager leaves the message loop with DisconnectReason::Error,
\* as it does on a read error, from where the reconnect path is entered
\* unless shutdown is set.
C8_WriteErrorEndsSession ==
    [][used'.write_errors > used.write_errors
          => (pc' = "after_loop" /\ disconnect_reason' = "Error")]_vars

\* a frame that parses into a book update
IsBookUpdate(text) ==
    /\ text.valid_json /\ text.well_formed
    /\ text.method \notin {"pong", "subscribe", "unsubscribe"}
    /\ text.channel = "book"

\* the levels that the entries of a message list for one symbol, in order
RECURSIVE LevelsFor(_, _, _)
LevelsFor(data, symbol, side) ==
    IF data = << >> THEN << >>
    ELSE (IF Head(data).symbol = symbol THEN Head(data)[side] ELSE << >>)
         \o LevelsFor(Tail(data), symbol, side)

\* the fold of the levels over a side, stated per price: the last level for
\* a price decides (quantity 0: absent, otherwise its quantity); a price no
\* level names is as before
LastWins(side, levels) ==
    LET named == { levels[i].price : i \in 1..Len(levels) }
        last(p) == levels[SetMax({ i \in 1..Len(levels) : levels[i].price = p })]
        kept == { p \in named : last(p).qty # 0 } \cup ((DOMAIN side) \ named)
    IN [p \in kept |-> IF p \in named THEN last(p).qty ELSE side[p]]

NoZeroLevel(ob) ==
    /\ \A p \in DOMAIN ob.bids : ob.bids[p] # 0
    /\ \A p \in DOMAIN ob.asks : ob.asks[p] # 0

\* C11: applying the entries of a book message to a replica leaves each side
\* equal to the fold of the entries' levels in order under "quantity 0
\* removes the price, any other quantity sets the price to that quantity"
\* (the last level for a price wins), and no replica ever stores a level of
\* quantity 0.
C11_FoldOfLevels ==
    /\ [][(conn_frames' = conn_frames + 1 /\ IsBookUpdate(last_frame'))
            => \A s \in DOMAIN orderbooks :
                  /\ orderbooks'[s].bids =
                        LastWins(orderbooks[s].bids, LevelsFor(last_frame'.data, s, "bids"))
                  /\ orderbooks'[s].asks =
                        LastWins(orderbooks[s].asks, LevelsFor(last_frame'.data, s, "asks"))]_vars
    /\ [](\A s \in DOMAIN orderbooks : NoZeroLevel(orderbooks[s]))

\* C12: in every replica, whenever both sides hold a level, best_bid is
\* strictly less than best_ask.
C12_BidBelowAsk ==
    \A s \in DOMAIN orderbooks :
        (DOMAIN orderbooks[s].bids # {} /\ DOMAIN orderbooks[s].asks # {})
            => best_bid(orderbooks[s]) < best_ask(orderbooks[s])

\* the entries of a message that are the only entry for their symbol
SoleEntries(data) ==
    { i \in 1..Len(data) : \A j \in 1..Len(data) : data[j].symbol = data[i].symbol => j = i }

\* C13: after an entry carrying a non-zero checksum c has been applied to a
\* replica, last_checksum is c and checksum_valid is true exactly when the
\* checksum computed over the replica as the entry's levels left it equals c.
C13_ChecksumRecorded ==
    [][(conn_frames' = conn_frames + 1 /\ IsBookUpdate(last_frame'))
          => \A i \in SoleEntries(last_frame'.data) :
                LET d == last_frame'.data[i]
                IN (d.symbol \in DOMAIN orderbooks /\ d.checksum # U32_ZERO)
                      => /\ orderbooks'[d.symbol].last_checksum = d.checksum
                         /\ orderbooks'[d.symbol].checksum_valid
                               = (calculate_checksum(orderbooks'[d.symbol]) = d.checksum)]_vars

\* an update with the checksum of asks 101 @ 2, bids 100 @ 1 was applied to a
\* replica that also held the bid 99 @ 2: the checksum is recorded and the
\* replica, whose own checksum differs, is marked invalid
C13_Witness ==
    /\ last_frame = F_sumok
    /\ "BTC/USD" \in DOMAIN orderbooks
    /\ orderbooks["BTC/USD"].bids = (99 :> 2) @@ (100 :> 1)
    /\ orderbooks["BTC/USD"].asks = (101 :> 2)
    /\ orderbooks["BTC/USD"].last_checksum = SUM_101_2_100_1
    /\ ~orderbooks["BTC/USD"].checksum_valid

\* the replicas marked invalid, and a step that is a call of
\* validate_orderbooks_and_reconnect
InvalidReplicas == { s \in DOMAIN orderbooks : ~orderbooks[s].checksum_valid }
ValidateCall == returned'.at # returned.at /\ returned'.op = "validate_orderbooks_and_reconnect"

\* a step that completes a reconnection (resubscribe_all has run) after a
\* call that found invalid replicas
ReconnectedAfterValidate ==
    /\ pc = "emit_reconnected" /\ pc' = "loop_top"
    /\ returned.op = "validate_orderbooks_and_reconnect" /\ returned.ok /\ returned.value > 0

\* the reconnection leaves every replica empty and valid and queues the
\* subscribe request of each for the new session
ReplicasResetAndReissued ==
    \A s \in DOMAIN orderbooks :
        /\ IsFreshReplica(orderbooks'[s], s)
        /\ \E i \in 1..Len(pending_commands') :
              /\ pending_commands'[i].type = "Subscribe"
              /\ pending_commands'[i].request.channel = "book"
              /\ pending_commands'[i].request.symbol = << s >>

\* C14 as stated: validate_orderbooks_and_reconnect returns the number of
\* replicas whose checksum_valid is false and enqueues a manual reconnect
\* exactly when that number is greater than 0; after the reconnection that
\* follows, every replica it counted is empty and valid again and its
\* subscription is re-issued.
C14_ValidateAsStated ==
    /\ [][ValidateCall
            => /\ returned'.ok
               /\ returned'.value = Cardinality(InvalidReplicas)
               /\ IF Cardinality(InvalidReplicas) > 0
                     THEN command_queue' = Append(command_queue, Command_Reconnect)
                     ELSE command_queue' = command_queue]_vars
    /\ [][ReconnectedAfterValidate => ReplicasResetAndReissued]_vars

\* C14: validate_orderbooks_and_reconnect counts the replicas whose
\* checksum_valid is false. With none it returns Ok(0) and enqueues nothing.
\* With some, while shutdown is not set and the manager task is alive, it
\* enqueues a manual reconnect and returns Ok(count); once shutdown is set or
\* the manager has terminated it enqueues nothing and returns Err. After a
\* reconnection that completes after such a call, every replica is empty and
\* valid again and its subscribe request is queued for the new session.
C14_ValidateAndReconnect ==
    /\ [][ValidateCall
            => LET count == Cardinality(InvalidReplicas)
                   alive == ~shutdown /\ pc # "done"
               IN IF count > 0 /\ ~alive
                     THEN /\ ~returned'.ok
                          /\ command_queue' = command_queue
                     ELSE /\ returned'.ok
                          /\ returned'.value = count
                          /\ IF count > 0
                                THEN command_queue' = Append(command_queue, Command_Reconnect)
                                ELSE command_queue' = command_queue]_vars
    /\ [][ReconnectedAfterValidate => ReplicasResetAndReissued]_vars

\* the manual reconnect requested by a call that counted one invalid replica
\* has completed: the replica, invalidated by the snapshot with the wrong
\* checksum, is empty and valid, and its subscribe request opens the new session
C14_Witness ==
    /\ returned = Result("validate_orderbooks_and_reconnect", TRUE, 1, returned.at)
    /\ last_frame = F_sumbad
    /\ disconnect_reason = "ManualReconnect"
    /\ conn = 1 /\ pc = "loop_top" /\ ws_stream
    /\ IsFreshReplica(orderbooks["BTC/USD"], "BTC/USD")
    /\ pending_commands = << Command_Subscribe(SubscribeRequest_orderbook(<< "BTC/USD" >>, 10)) >>

\* the subscription queue QueueSpec is about
TheQueue == subscriptions.trades[1]

\* C15: for a queue of capacity C whose receiver is open, after P sends and K
\* receives in any interleaving, delivered + dropped = P, at most C items are
\* buffered and dropped >= P - K - C; dropped only grows by a send that finds
\* the queue full, so it is 0 if no send ever found the queue full.
C15_QueueAccounting ==
    /\ [](~TheQueue.closed
            => /\ TheQueue.delivered + TheQueue.dropped = used.sends
               /\ Len(TheQueue.queue) <= TheQueue.capacity
               /\ TheQueue.dropped >= used.sends - used.takes - TheQueue.capacity)
    /\ [][TheQueue'.dropped # TheQueue.dropped
            => /\ used'.sends = used.sends + 1
               /\ Len(TheQueue.queue) = TheQueue.capacity
               /\ TheQueue'.dropped = TheQueue.dropped + 1]_vars

\* buffer 3, five sends, nothing received: three delivered, two dropped
C15_Witness ==
    /\ ~TheQueue.closed
    /\ TheQueue.capacity = 3
    /\ used.sends = 5 /\ used.takes = 0
    /\ TheQueue.delivered = 3
    /\ TheQueue.dropped = 2
    /\ Len(TheQueue.queue) = 3

\* a step that is a send to the queue
SendStep == used'.sends = used.sends + 1

QueueFull == ~TheQueue.closed /\ Len(TheQueue.queue) = TheQueue.capacity

\* C16: a send to a full queue never blocks the producer: the send completes,
\* the incoming item is discarded, the queued items are as before, dropped
\* grows by exactly 1, delivered is unchanged and the send reports success.
C16_SendToFullQueue ==
    /\ []((QueueFull /\ used.sends < MaxSends) => ENABLED Sender_send("trades", 1))
    /\ [][(SendStep /\ QueueFull)
            => /\ TheQueue'.queue = TheQueue.queue
               /\ TheQueue'.dropped = TheQueue.dropped + 1
               /\ TheQueue'.delivered = TheQueue.delivered
               /\ returned' = Result("send", TRUE, 0, used'.sends)]_vars

\* the second send to a queue of capacity 1 has returned Ok: the first item
\* is still the only one queued, and the second was counted as dropped
C16_Witness ==
    /\ returned = Result("send", TRUE, 0, 2)
    /\ TheQueue.capacity = 1
    /\ TheQueue.queue = << QueueItem(1) >>
    /\ TheQueue.delivered = 1
    /\ TheQueue.dropped = 1

\* C17: when more items are produced than the buffer holds and the consumer
\* has received nothing, the buffer holds the most recently produced items:
\* with capacity C and P sends, the items P-C+1 .. P, in order.
C17_KeepsMostRecent ==
    (~TheQueue.closed /\ used.takes = 0 /\ TheQueue.dropped > 0)
        => TheQueue.queue =
              [i \in 1..TheQueue.capacity |-> QueueItem(used.sends - TheQueue.capacity + i)]

Registries == {"orderbook", "trades", "ticker", "ohlc"}

\* the channel a registry serves and the kind of item it carries
RegistryChannel(registry) ==
    CASE registry = "orderbook" -> "book"
      [] registry = "trades" -> "trade"
      [] registry = "ticker" -> "ticker"
      [] registry = "ohlc" -> "ohlc"

RegistryKind(registry) ==
    CASE registry = "orderbook" -> "Orderbook"
      [] registry = "trades" -> "Trade"
      [] registry = "ticker" -> "Ticker"
      [] registry = "ohlc" -> "OHLC"

\* the items one frame yields for a subscription of the given symbol, in the
\* order of the frame's entries: the whole update once per matching entry on
\* the book channel, the typed entry itself on the other channels
RECURSIVE MatchingItems(_, _, _, _, _)
MatchingItems(registry, symbol, text, data, tags) ==
    IF data = << >> THEN << >>
    ELSE (IF Head(data).symbol = symbol \/ symbol = "*"
             THEN << IF registry = "orderbook"
                        THEN [kind |-> "Orderbook", symbol |-> "",
                              body |-> [channel |-> "book", update_type |-> text.type,
                                        data |-> text.data],
                              conn |-> tags.conn, frame |-> tags.frame]
                        ELSE [kind |-> RegistryKind(registry), symbol |-> Head(data).symbol,
                              body |-> Head(data), conn |-> tags.conn] >>
             ELSE << >>)
         \o MatchingItems(registry, symbol, text, Tail(data), tags)

\* the items the step offers to a subscription: those of the frame being
\* fanned out (a book update at the FanOut step, any other update at the
\* step that reads it), none at any other step
Offered(registry, sub) ==
    LET text == last_frame'
        parsed == /\ text.valid_json /\ text.well_formed
                  /\ text.method \notin {"pong", "subscribe", "unsubscribe"}
                  /\ text.channel = RegistryChannel(registry)
        fanned == IF registry = "orderbook"
                     THEN pc = "fanout" /\ pc' = "select"
                     ELSE conn_frames' = conn_frames + 1
    IN IF parsed /\ fanned
          THEN MatchingItems(registry, sub.symbol, text, text.data,
                             [conn |-> conn, frame |-> used'.frames])
          ELSE << >>

LastEntryFor(data, symbol) ==
    data[SetMax({ j \in 1..Len(data) : data[j].symbol = symbol })]

\* C19: the entries of a book frame are applied to their replicas before the
\* frame is offered to a subscription queue. Every book update waiting in a
\* queue is therefore already part of the replica of each symbol it lists,
\* unless the replica was created or reset (re-subscribe, reconnect) after
\* the frame was received: the replica has absorbed that frame or a later
\* one, and if that frame is the last it absorbed it carries its timestamp.
C19_MutationPrecedesFanOut ==
    \A k \in 1..Len(subscriptions.orderbook) :
        \A i \in 1..Len(subscriptions.orderbook[k].queue) :
            LET item == subscriptions.orderbook[k].queue[i]
            IN \A j \in 1..Len(item.body.data) :
                  LET s == item.body.data[j].symbol
                  IN (s \in DOMAIN orderbooks /\ orderbooks[s].reset_at < item.frame)
                        => /\ orderbooks[s].applied >= item.frame
                           /\ orderbooks[s].applied = item.frame
                                 => orderbooks[s].timestamp
                                       = LastEntryFor(item.body.data, s).timestamp

\* the first snapshot waits in the queue of the BTC/USD subscription and the
\* replica, created before the frame arrived, already holds its levels
C19_Witness ==
    /\ Len(subscriptions.orderbook) = 1
    /\ subscriptions.orderbook[1].queue # << >>
    /\ subscriptions.orderbook[1].queue[1].frame = 1
    /\ subscriptions.orderbook[1].queue[1].body.data = F_snapshotA.data
    /\ orderbooks["BTC/USD"].reset_at = 0
    /\ orderbooks["BTC/USD"].applied = 1
    /\ orderbooks["BTC/USD"].bids = (99 :> 2) @@ (100 :> 1)
    /\ orderbooks["BTC/USD"].asks = (101 :> 1)

\* a step in which a consumer takes an item from a subscription queue
ConsumerDrains == used'.takes = used.takes + 1

\* the replicas after a text frame, as a function of the replicas before it,
\* the frame and its number, and of nothing else
ReplicasAfterFrame(obs, text, n) ==
    IF IsBookUpdate(text) THEN ApplyBookData(obs, text.data, n) ELSE obs

ReplicaContent(ob) ==
    << ob.bids, ob.asks, ob.sequence, ob.timestamp, ob.last_checksum, ob.checksum_valid >>

\* a step that is a subscribe_orderbook call
SubscribeOrderbookCall ==
    /\ Len(stored_subscriptions') = Len(stored_subscriptions) + 1
    /\ Last(stored_subscriptions').kind = "Orderbook"

\* a step of the manager task that may touch replicas: it handles a frame or
\* completes a reconnection
ManagerTouchesReplicas ==
    \/ conn_frames' = conn_frames + 1
    \/ pc = "emit_reconnected" /\ pc' = "loop_top"

\* C21: the replica of a symbol is created by the first subscribe_orderbook
\* call for the symbol; afterwards its content is changed only by the manager
\* task (an entry applied, a reset on reconnect); a later subscribe_orderbook
\* call for the same symbol leaves levels, sequence and checksum fields of
\* the existing replica as they are.
C21_ReplicaLifecycle ==
    [][/\ (DOMAIN orderbooks' # DOMAIN orderbooks)
            => /\ SubscribeOrderbookCall
               /\ DOMAIN orderbooks' = DOMAIN orderbooks \cup {Last(stored_subscriptions').pair}
       /\ \A s \in DOMAIN orderbooks :
             ReplicaContent(orderbooks'[s]) # ReplicaContent(orderbooks[s])
                => ManagerTouchesReplicas
       /\ SubscribeOrderbookCall
            => \A s \in DOMAIN orderbooks :
                  ReplicaContent(orderbooks'[s]) = ReplicaContent(orderbooks[s])]_vars

\* a step taken on the consumer's side: disconnect, a call that enqueues or
\* registers (reconnect, subscribe_*, trading commands), subscribe_events
ConsumerSideStep ==
    \/ shutdown' # shutdown
    \/ used'.calls # used.calls
    \/ event_tx' # event_tx

\* C22: the connection state cell is written by the manager task only;
\* consumer-side operations (disconnect, reconnect, subscribe_*) read it and
\* never change it.
C22_SingleWriter ==
    [][ConsumerSideStep => state' = state]_vars

\* the step that completes a successful reconnection, and the step that
\* takes note of a manual reconnect request after the message loop
ReconnectionSucceeds == pc = "emit_reconnected" /\ pc' = "loop_top"
ManualReconnectNoted ==
    pc = "after_loop" /\ pc' # "after_loop" /\ disconnect_reason = "ManualReconnect"

\* the step that announces an attempt and starts its backoff sleep
AttemptAnnounced == pc = "emit_reconnecting" /\ pc' = "sleeping"

\* no attempt has failed since the last successful (re)connection or manual
\* reconnect request: the last of these in the history is not a failure
NoFailureSince ==
    \/ disconnect_reason = "ManualReconnect"
    \/ LET marks == { i \in 1..Len(emitted) :
                        emitted[i].type \in {"Connected", "Reconnected", "ReconnectFailed"} }
       IN marks # {} /\ emitted[SetMax(marks)].type # "ReconnectFailed"

EmittingStep == emitted' # emitted

\* the event emitted now finds no sink, or a sink whose channel is full
NoRoomForEvent == event_tx = 0 \/ Len(event_chan) = EVENT_BUFFER_SIZE

\* where run continues after an emit_event call, read off the control flow
\* of run alone (lines 865-966)
AfterEmit(at, event) ==
    CASE at = "start" -> "loop_top"
      [] at = "loop_top" -> "exit"
      [] at = "after_loop" ->
           IF event = Ev_Disconnected("Shutdown") THEN "exit" ELSE "check_reconnect"
      [] at = "check_reconnect" -> "exit"
      [] at = "emit_reconnecting" -> "sleeping"
      [] at = "sleeping" -> "exit"
      [] at = "connecting" -> "loop_top"
      [] at = "emit_reconnected" -> "loop_top"
      [] OTHER -> "none"

\* C24: emitting a lifecycle event never blocks the manager.  Wherever the
\* manager is not waiting for input it has a step to take, whatever the
\* event channel holds; an event emitted with no sink registered or with 100
\* undelivered events in the channel is discarded, the channel being left as
\* it was; and the manager goes on to the same place as when the event is
\* delivered.
C24_EmitNeverBlocks ==
    /\ [](pc \notin {"select", "fanout", "done"} => ENABLED ManagerStep)
    /\ [][EmittingStep =>
            /\ pc' = AfterEmit(pc, emitted'[Len(emitted')])
            /\ IF NoRoomForEvent
                  THEN event_chan' = event_chan
                  ELSE event_chan' = Append(event_chan, emitted'[Len(emitted')])]_vars

\* the channel holds 100 events none of which was taken, the manager emitted
\* Disconnected for a failed session, the event was discarded and the manager
\* went on to examine the reconnect policy
C24_Witness ==
    /\ event_tx # 0
    /\ Len(event_chan) = EVENT_BUFFER_SIZE
    /\ used.recvs = 0
    /\ emitted[Len(emitted)] = Ev_Disconnected("io error")
    /\ event_chan[Len(event_chan)] = Ev_Reconnected
    /\ pc = "check_reconnect"

\* C25: at most one event receiver is active.  Every event emitted after a
\* second subscribe_events call is offered to the channel of the new receiver
\* only, and the channel of the previous receiver gets nothing any more: from
\* the call on it can only lose events to its receiver.
C25_OneActiveReceiver ==
    /\ [][EmittingStep =>
            /\ old_event_chan' = old_event_chan
            /\ (event_tx # 0 /\ Len(event_chan) < EVENT_BUFFER_SIZE)
                  => event_chan' = Append(event_chan, emitted'[Len(emitted')])]_vars
    /\ [][event_tx' = event_tx =>
            \/ old_event_chan' = old_event_chan
            \/ old_event_chan # << >> /\ old_event_chan' = Tail(old_event_chan)]_vars
    /\ [][event_tx' # event_tx =>
            /\ event_chan' = << >>
            /\ old_event_chan' = event_chan]_vars

\* the first receiver was handed Connected, a second one was registered, and
\* the Disconnected event of the failed session went to the second only
C25_Witness ==
    /\ event_tx = 2
    /\ old_event_chan = << Ev_Connected >>
    /\ event_chan = << Ev_Disconnected("io error") >>
    /\ emitted = << Ev_Connected, Ev_Disconnected("io error") >>

\* a tick of the heartbeat interval
HeartbeatTicks == used'.ticks > used.ticks

\* C26: the heartbeat task enqueues a Ping only at a tick at which the state
\* reads Connected and shutdown is not set; it enqueues nothing while the
\* state is Reconnecting or Disconnected; and it stops at the first tick after
\* shutdown is set or the command queue is closed.
C26_Heartbeat ==
    /\ [][HeartbeatTicks /\ command_queue' # command_queue =>
            /\ state = "Connected" /\ ~shutdown
            /\ command_queue' = Append(command_queue, Command_Ping)]_vars
    /\ [][HeartbeatTicks /\ state \in {"Reconnecting", "Disconnected"} =>
            command_queue' = command_queue]_vars
    /\ [][HeartbeatTicks /\ (shutdown \/ CommandChannelClosed) =>
            ~heartbeat_running']_vars

\* the attempt number as the natural number it stands for, for the small ones
AttemptValue(attempt) == attempt[1] * 65536 + attempt[2]

\* min(initial_delay * multiplier^k, max_delay) in whole milliseconds.  From
\* k = 65536 on, with the delays and multipliers of BackoffConfigs, the
\* product is beyond every cap when the multiplier exceeds 1, is the initial
\* delay when it is 1, and is below one millisecond when it is less than 1.
CappedExponential(config, attempt) ==
    LET m == config.backoff_multiplier
        k == AttemptValue(attempt)
    IN IF attempt[1] = 0
          THEN Min((config.initial_delay * Pow(m[1], k)) \div Pow(m[2], k), config.max_delay)
          ELSE IF config.initial_delay = 0 \/ m[1] < m[2] THEN 0
          ELSE IF m[1] = m[2] THEN Min(config.initial_delay, config.max_delay)
          ELSE config.max_delay

\* j is an attempt number not after k
NotAfter(j, k) == j[1] < k[1] \/ (j[1] = k[1] /\ j[2] <= k[2])

HasForm(s, sev, category, message) ==
    /\ s = << sev >> \o category \o << ":" >> \o message
    /\ \A i \in 1..Len(category) : category[i] # ":"

\* the category a category string names
NamedBy(category, value) ==
    IF \E tag \in DOMAIN CategoryNames : CategoryNames[tag] = category
       THEN \E tag \in DOMAIN CategoryNames :
               CategoryNames[tag] = category /\ value = KrakenCategory(tag)
       ELSE value = KrakenCategory_Unknown(category)

SeverityOf(sev) == IF sev = "E" THEN "Error" ELSE "Warning"

\* the same message but for white space at its ends
SameButForEnds(message, trimmed) ==
    /\ trimmed = << >> \/ (trimmed[1] # " " /\ trimmed[Len(trimmed)] # " ")
    /\ \E before, after \in 0..Len(message) :
          /\ before + Len(trimmed) + after = Len(message)
          /\ \A i \in 1..before : message[i] = " "
          /\ \A i \in 1..after : message[Len(message) + 1 - i] = " "
          /\ trimmed = SubSeq(message, before + 1, before + Len(trimmed))

\* C28 as stated: for "E<Category>:<msg>" the parser returns severity Error,
\* the named category and <msg> exactly as it appears in the input, and for
\* "W<Category>:<msg>" severity Warning with the same category and message.
C28_ParseAsStated ==
    returned.op = "parse" =>
        \A sev \in {"E", "W"}, category \in CategoryStrings, message \in Messages :
            HasForm(returned.at, sev, category, message) =>
                /\ returned.ok
                /\ returned.value.severity = SeverityOf(sev)
                /\ NamedBy(category, returned.value.category)
                /\ returned.value.message = message

\* C28: for "E<Category>:<msg>" the parser returns severity Error and the
\* named category, for "W<Category>:<msg>" severity Warning and the named
\* category, and in both cases the message is <msg> without the white space
\* at its ends.
C28_ParseTrimsMessage ==
    returned.op = "parse" =>
        \A sev \in {"E", "W"}, category \in CategoryStrings, message \in Messages :
            HasForm(returned.at, sev, category, message) =>
                /\ returned.ok
                /\ returned.value.severity = SeverityOf(sev)
                /\ NamedBy(category, returned.value.category)
                /\ SameButForEnds(message, returned.value.message)
                /\ returned.value.raw = returned.at

\* "WQuery: a" was parsed into Warning, Query and the message "a"
C28_Witness ==
    /\ returned.op = "parse"
    /\ returned.at = << "W" >> \o CategoryNames.Query \o << ":", " ", "a" >>
    /\ returned.value.severity = "Warning"
    /\ returned.value.category = KrakenCategory("Query")
    /\ returned.value.message = << "a" >>

\* the string has the form <Severity><Category>:<Message>
HasProviderForm(s) ==
    /\ s # << >>
    /\ s[1] \in {"E", "W"}
    /\ \E i \in 2..Len(s) : s[i] = ":"

\* C29: for every input string that is not of the form
\* <Severity><Category>:<Message> with Severity in {E, W} the parser returns
\* a value, never failing or aborting, and the value is severity Error,
\* category General and the whole input as the message.
C29_FallbackForOtherStrings ==
    (returned.op = "parse" /\ ~HasProviderForm(returned.at)) =>
        /\ returned.ok
        /\ returned.value.severity = "Error"
        /\ returned.value.category = KrakenCategory("General")
        /\ returned.value.message = returned.at

\* the last call was a trading command and it reported success
ReportsSuccess ==
    /\ returned.op \in {"place_order", "cancel_order", "cancel_all_orders", "amend_order"}
    /\ returned.ok
    /\ returned.op \in {"cancel_order", "amend_order"} => returned.value.success

\* the request of the trading command that returned: placement is known by
\* the client-supplied order id, amend and cancel by the order id
RequestOf(result) ==
    CASE result.op = "place_order" -> TradingRequest("add_order", result.value.cl_ord_id)
      [] result.op = "cancel_order" -> TradingRequest("cancel_order", result.value.order_id)
      [] result.op = "amend_order" -> TradingRequest("amend_order", result.value.order_id)
      [] OTHER -> TradingRequest("cancel_all", "")

\* C30: the value returned by place_order, cancel_order, cancel_all_orders
\* and amend_order reflects the provider's response to that command, found by
\* its order id: success is reported only for a command whose request was
\* written to the socket and which the provider accepted.
C30_ResultReflectsProvider ==
    ReportsSuccess =>
        /\ \E i \in 1..Len(written) : written[i].ok /\ written[i].frame = RequestOf(returned)
        /\ last_frame = TradingResponse(RequestOf(returned), TRUE)

\* a subscribe_* call that returns Ok: the command queue took its request
SubscribeSucceeds ==
    /\ used'.calls > used.calls
    /\ Len(command_queue') = Len(command_queue) + 1
    /\ command_queue'[Len(command_queue')].type = "Subscribe"

\* C31: the stored-subscription list is append-only.  Each successful
\* subscribe_* call adds exactly one record, the one of its request; no step
\* removes or changes a record, be it the drop of a consumer handle, a
\* refused subscribe or a reconnect; and every successful reconnection
\* re-issues every record, in order, as a pending Subscribe command.
C31_StoredAppendOnly ==
    /\ [][/\ Len(stored_subscriptions') >= Len(stored_subscriptions)
          /\ SubSeq(stored_subscriptions', 1, Len(stored_subscriptions)) = stored_subscriptions]_vars
    /\ [][SubscribeSucceeds =>
            /\ Len(stored_subscriptions') = Len(stored_subscriptions) + 1
            /\ command_queue'[Len(command_queue')] =
                 Command_Subscribe(StoredRequest(stored_subscriptions'[Len(stored_subscriptions')]))]_vars
    /\ [][used'.calls = used.calls => stored_subscriptions' = stored_subscriptions]_vars
    /\ [][conn' # conn \/ (pc = "emit_reconnected" /\ pc' # pc) =>
            (pc' = "loop_top" =>
               pending_commands' = pending_commands \o
                  [i \in 1..Len(stored_subscriptions) |->
                      Command_Subscribe(StoredRequest(stored_subscriptions[i]))])]_vars

\* two records are stored, a consumer dropped its handle, the provider
\* refused a subscribe, and the reconnection that followed re-issued both
C31_Witness ==
    /\ Len(stored_subscriptions) = 2
    /\ \E registry \in DOMAIN subscriptions :
          \E k \in 1..Len(subscriptions[registry]) : subscriptions[registry][k].closed
    /\ last_frame = F_rejected
    /\ conn = 1
    /\ resub_count = 2
    /\ Len(pending_commands) = 2

\* A call of generate_token that has returned, and the call before it.
TokenCalls == returned.op = "generate_token" /\ returned.at[3].op = "generate_token"
SameSecret == returned.at[1] = returned.at[3].at[1]
SameNonce == returned.at[2] = returned.at[3].at[2]

\* C32: generate_token is a function of the secret and the nonce: two calls
\* with the same secret and the same nonce return the same token, two calls
\* with the same secret and different nonces return different tokens, and a
\* secret that is not base64 returns the InvalidMessage error and no token.
C32_TokenFunction ==
    /\ returned.op = "generate_token" =>
          /\ returned.ok <=> Base64Valid(returned.at[1])
          /\ ~returned.ok => returned.value = "InvalidMessage"
          /\ returned.ok => Len(returned.value) = 44
    /\ TokenCalls /\ SameSecret /\ returned.ok =>
          /\ returned.at[3].ok
          /\ SameNonce <=> returned.value = returned.at[3].value

\* two tokens under one secret for nonces one apart
C32_Witness ==
    /\ TokenCalls /\ SameSecret /\ returned.ok
    /\ returned.at[2] = 1234567891 /\ returned.at[3].at[2] = 1234567890
    /\ returned.value # returned.at[3].value

\* the step fans a frame out: a book update at FanOut, any other frame at
\* the step that reads it
FansOut == (pc = "fanout" /\ pc' = "select") \/ conn_frames' = conn_frames + 1

\* C33: when a frame is fanned out, every registration of every registry is
\* offered exactly the entries of its own channel whose symbol equals its
\* filter, or all of them if its filter is "*": an open registration gains
\* these items at the tail and counts them as delivered; a registration of
\* another symbol or of another channel is left as it was; a registration
\* whose queue is closed fails the send and keeps its queue and both
\* counters, while the registrations after it are served all the same.
C33_FanOutBySymbol ==
    [][FansOut =>
         \A registry \in Registries :
            /\ Len(subscriptions'[registry]) = Len(subscriptions[registry])
            /\ \A k \in 1..Len(subscriptions[registry]) :
                  LET sub == subscriptions[registry][k]
                      after == subscriptions'[registry][k]
                      items == Offered(registry, sub)
                  IN IF sub.closed
                        THEN /\ ~SubscriptionSender_send_ok(sub)
                             /\ after = sub
                        ELSE /\ SubscriptionSender_send_ok(sub)
                             /\ after = [sub EXCEPT !.queue = @ \o items,
                                                    !.delivered = @ + Len(items)]]_vars

\* a trade for BTC/USD has been fanned out to two trade registrations, the
\* first closed, the second for "*": the second holds it
C33_Witness ==
    /\ last_frame = F_tradeBTC
    /\ Len(subscriptions.trades) = 2
    /\ subscriptions.trades[1].closed /\ subscriptions.trades[1].symbol = "BTC/USD"
    /\ subscriptions.trades[1].delivered = 0 /\ subscriptions.trades[1].dropped = 0
    /\ subscriptions.trades[2].symbol = "*"
    /\ subscriptions.trades[2].delivered = 1
    /\ Len(subscriptions.trades[2].queue) = 1
    /\ subscriptions.trades[2].queue[1].symbol = "BTC/USD"

\* the entries for a symbol in the book frame the step applies, if it applies one
EntriesApplied(symbol) ==
    IF conn_frames' = conn_frames + 1 /\ IsBookUpdate(last_frame')
       THEN { i \in 1..Len(last_frame'.data) : last_frame'.data[i].symbol = symbol }
       ELSE {}

StoreInWindow ==
    \/ pc = "set_reconnecting" /\ state' = "Reconnecting"
    \/ pc = "connecting" /\ state' = "Connected"

\* C35: after disconnect() has stored Disconnected, the only steps that
\* change the state again are the manager's stores of Reconnecting and of
\* Connected that follow its last look at the flag, so the state then reads
\* Reconnecting or Connected while the manager task is still running; the
\* manager task stores Disconnected when it terminates, and from then on
\* the state is Disconnected at every step; a manager task that keeps
\* running does terminate once the flag is set.
C35_DisconnectOverwritten ==
    /\ [][(shutdown /\ state' # state) => (state' = "Disconnected" \/ StoreInWindow)]_vars
    /\ []((shutdown /\ state # "Disconnected") =>
             (pc \notin {"start", "done"} /\ state \in {"Reconnecting", "Connected"}))
    /\ [](pc = "done" => state = "Disconnected")
    /\ [][pc = "done" => (pc' = "done" /\ state' = "Disconnected")]_vars
    /\ shutdown ~> [](pc = "done" /\ state = "Disconnected")

\* disconnect() has run and the state reads Connected: the manager had
\* passed its check after the backoff sleep and the handshake succeeded
C35_Witness ==
    /\ shutdown
    /\ state = "Connected"
    /\ pc = "emit_reconnected"

\* the commands that stand for a frame to be written
FrameCommands == {"Subscribe", "Ping", "RawMessage"}

\* the step takes the command at the head of the queue, in the message loop
\* of a connection whose re-subscription frames have all been written, and a
\* command that stands for a frame is handed to the socket
HeadTakenByMessageLoop ==
    /\ command_queue # << >>
    /\ command_queue' = Tail(command_queue)
    /\ pc = "select"
    /\ pending_commands = << >>
    /\ Head(command_queue).type \in FrameCommands =>
          /\ Len(written') = Len(written) + 1
          /\ Last(written').frame = Head(command_queue).request
          /\ Last(written').src = "queue"

\* C37: a command accepted by the command queue stays in the queue, in its
\* place, through the end of a session, the backoff sleep, the connection
\* attempt and the re-subscription: the only step that removes a command is
\* the message loop of a live connection taking the head of the queue after
\* all re-subscription frames, and it hands the frame of the command to the
\* socket. So on every connection the frames of queued commands follow the
\* re-subscription frames and keep the order of the queue.
C37_QueuedCommandsKept ==
    /\ [][\/ command_queue' = command_queue
          \/ /\ Len(command_queue') = Len(command_queue) + 1
             /\ SubSeq(command_queue', 1, Len(command_queue)) = command_queue
          \/ HeadTakenByMessageLoop]_vars
    /\ [](\A i, j \in 1..Len(written) :
             (i < j /\ written[i].src = "queue") => written[j].src # "pending")

\* a subscription and then an order were requested during the outage: the
\* new connection was handed the re-subscription frame, then the frame of
\* the queued subscribe command, then the order
C37_Witness ==
    /\ conn = 1
    /\ Len(written) = 3
    /\ written[1].src = "pending" /\ written[1].ok
    /\ written[2].src = "queue" /\ written[2].ok
    /\ written[2].frame.method = "subscribe" /\ written[2].frame.channel = "trade"
    /\ written[3].src = "queue" /\ written[3].ok
    /\ written[3].frame.method = "add_order" /\ written[3].frame.symbol = "O1"
    /\ command_queue = << >>

\* how many entries of a sequence satisfy a test
CountOf(seq, Test(_)) == Cardinality({ i \in 1..Len(seq) : Test(seq[i]) })

\* the subscribe frames of a request: queued, handed to the socket for a
\* queued command, and recorded in the stored subscriptions
QueuedFor(request) ==
    CountOf(command_queue, LAMBDA c : c.type = "Subscribe" /\ c.request = request)
WrittenFromQueueFor(request) ==
    CountOf(written, LAMBDA w : w.src = "queue" /\ w.frame.method = "subscribe"
                                 /\ w.frame = request)
StoredFor(request) ==
    CountOf(stored_subscriptions, LAMBDA sub : ExpectedResubscribeFrame(sub) = request)

\* C38: for subscriptions requested during the outage, the connection that
\* ends the outage is handed one subscribe frame per stored record by the re-subscription,
\* and the Subscribe command of each is still queued or has been handed to
\* the socket as well, so each subscription yields two frames; the replica
\* of a book subscription is reset by the re-subscription, before the first
\* frame, and the step that writes the queued command leaves it alone.
C38_SubscribedTwice ==
    /\ [](\A k \in 1..Len(stored_subscriptions) :
             LET request == ExpectedResubscribeFrame(stored_subscriptions[k])
             IN /\ conn <= 1
                     => QueuedFor(request) + WrittenFromQueueFor(request) = StoredFor(request)
                /\ (conn = 1 /\ pc \in {"select", "fanout"} /\ k <= resub_count)
                     => /\ written[k].src = "pending"
                        /\ written[k].frame = request)
    /\ [][(pc = "select" /\ Len(written') = Len(written) + 1)
             => orderbooks' = orderbooks]_vars
    /\ [][(pc = "emit_reconnected" /\ pc' = "loop_top")
             => /\ written = << >>
                /\ \A k \in 1..Len(stored_subscriptions) :
                      stored_subscriptions[k].kind = "Orderbook"
                         => IsFreshReplica(orderbooks'[stored_subscriptions[k].pair],
                                           stored_subscriptions[k].pair)]_vars

\* subscribe_orderbook was called during the outage: the new connection has
\* been handed the subscribe frame twice, once for the stored record and
\* once for the queued command, and the replica holds the snapshot that
\* arrived on the new connection
C38_Witness ==
    /\ conn = 1 /\ pc = "select"
    /\ Len(stored_subscriptions) = 1 /\ stored_subscriptions[1].kind = "Orderbook"
    /\ Len(written) = 2
    /\ written[1].src = "pending" /\ written[1].ok
    /\ written[2].src = "queue" /\ written[2].ok
    /\ written[1].frame = written[2].frame
    /\ orderbooks["BTC/USD"].sequence = 1
    /\ orderbooks["BTC/USD"].asks = (101 :> 1)

\* the session was ended by a manual reconnect under a policy with
\* reconnection disabled
ManualReconnectWhileDisabled ==
    /\ ~reconnect_config.enabled
    /\ disconnect_reason = "ManualReconnect"
    /\ pc \notin {"select", "fanout"}

FailedCall == pc = "done" /\ used'.calls = used.calls + 1

\* what a failed subscribe call for a registry leaves behind
LeftBehind(registry) ==
    LET sender == Last(subscriptions'[registry])
        record == Last(stored_subscriptions')
    IN /\ subscriptions'[registry] # << >>
       /\ stored_subscriptions' # << >>
       /\ subscriptions'[registry] = Append(subscriptions[registry], sender)
       /\ \A other \in Registries \ {registry} : subscriptions'[other] = subscriptions[other]
       /\ sender.closed /\ sender.queue = << >>
       /\ stored_subscriptions' = Append(stored_subscriptions, record)
       /\ record.pair = sender.symbol
       /\ record.kind = (IF registry = "orderbook" THEN "Orderbook" ELSE "Trades")
       /\ IF registry = "orderbook"
             THEN /\ sender.symbol \in DOMAIN orderbooks'
                  /\ IsFreshReplica(orderbooks'[sender.symbol], sender.symbol)
                  /\ \A s \in DOMAIN orderbooks \ {sender.symbol} :
                        orderbooks'[s] = orderbooks[s]
             ELSE orderbooks' = orderbooks

\* the registries never lose an entry, the stored subscriptions never lose a
\* record and no replica disappears
NothingRemoved ==
    /\ \A registry \in Registries :
          /\ Len(subscriptions'[registry]) >= Len(subscriptions[registry])
          /\ \A k \in 1..Len(subscriptions[registry]) :
                subscriptions'[registry][k].symbol = subscriptions[registry][k].symbol
    /\ Len(stored_subscriptions') >= Len(stored_subscriptions)
    /\ SubSeq(stored_subscriptions', 1, Len(stored_subscriptions)) = stored_subscriptions
    /\ DOMAIN orderbooks \subseteq DOMAIN orderbooks'

\* C39: a call of subscribe_orderbook or subscribe_trades that fails because
\* the manager task has terminated sends no command, yet its sender stays
\* registered (with nobody to receive from it), its record stays appended
\* to the stored subscriptions and, on the book channel, the replica of the
\* pair has been replaced by a fresh empty one; no later step takes any of
\* this back.
C39_FailedSubscribeNotRolledBack ==
    /\ [][FailedCall =>
            /\ command_queue' = command_queue
            /\ LeftBehind("orderbook") \/ LeftBehind("trades")]_vars
    /\ [][NothingRemoved]_vars

\* after the manager task has terminated subscribe_orderbook was called for
\* a pair whose replica held two frames: the first handle still has both
\* queued, the second sender is registered and closed, two records are
\* stored and the replica is empty
C39_Witness ==
    /\ pc = "done"
    /\ Len(subscriptions.orderbook) = 2
    /\ subscriptions.orderbook[1].symbol = "BTC/USD" /\ ~subscriptions.orderbook[1].closed
    /\ Len(subscriptions.orderbook[1].queue) = 2
    /\ subscriptions.orderbook[2].symbol = "BTC/USD" /\ subscriptions.orderbook[2].closed
    /\ Len(stored_subscriptions) = 2
    /\ stored_subscriptions[2].kind = "Orderbook" /\ stored_subscriptions[2].pair = "BTC/USD"
    /\ IsFreshReplica(orderbooks["BTC/USD"], "BTC/USD")
    /\ orderbooks["BTC/USD"].reset_at = 2
    /\ command_queue = << >>

\* the first step of the manager task emits Connected; a sink registered by
\* then receives it, and it is the only Connected event ever emitted
ConnectedAtStart ==
    /\ [](pc = "start" => (emitted = << >> /\ event_chan = << >>))
    /\ [](pc # "start" =>
             /\ emitted # << >>
             /\ \A i \in 1..Len(emitted) : emitted[i] = Ev_Connected <=> i = 1)
    /\ [][(pc = "start" /\ pc' # "start") =>
             event_chan' = (IF event_tx > 0 THEN << Ev_Connected >> ELSE << >>)]_vars
    /\ [][pc # "start" => \A i \in (Len(event_chan) + 1)..Len(event_chan') :
                              event_chan'[i].type # "Connected"]_vars

\* the events that follow the initial one
LaterEvents ==
    {"Disconnected", "Reconnecting", "Reconnected", "ReconnectFailed", "ReconnectExhausted"}

\* C40 as stated: Connected is emitted once, at the start of the manager
\* task, and reaches only a sink registered before that; the first event of
\* a sink that missed it is Disconnected or Reconnecting.
C40_FirstIsDisconnectedOrReconnecting ==
    /\ ConnectedAtStart
    /\ []((event_chan # << >> /\ event_chan[1].type # "Connected")
             => event_chan[1].type \in {"Disconnected", "Reconnecting"})

\* C40: Connected is emitted once, at the start of the manager task, and
\* reaches only a sink registered before that; the first event of a sink
\* that missed it is whichever event the manager emits next after the
\* registration: Disconnected, Reconnecting, Reconnected, ReconnectFailed
\* or ReconnectExhausted.
C40_InitialConnected ==
    /\ ConnectedAtStart
    /\ [](event_chan # << >> =>
             /\ IsSuffix(event_chan, emitted)
             /\ event_chan[1].type = "Connected" => event_chan = emitted
             /\ event_chan[1].type # "Connected" => event_chan[1].type \in LaterEvents)

\* a sink registered during the backoff sleep: the first event it holds is
\* Reconnected
C40_Witness ==
    /\ event_tx = 1
    /\ event_chan = << Ev_Reconnected >>
    /\ Len(emitted) = 4

====
